---- MODULE Spec2Model ----
(***************************************************************************)
(* Demand-team workflow (Actor -> Critic -> route -> HITL -> finalize ->   *)
(* store) of graph/demand_flow.py, the two JSON stores of DBmock/ and the  *)
(* local approve/reject handler of streamlit_app.py.                       *)
(*                                                                         *)
(* Units: a boost fraction and a net score are integer numbers of          *)
(* hundredths (0.30 = 30); a boost percent is an integer number of         *)
(* hundredths of a percent; a baseline and a forecast are integer numbers  *)
(* of hundredths of a unit.  Timestamps are                                *)
(* the number of _now_iso() calls made so far.  The customer, location and *)
(* date of a run are held fixed, so a context key is its sku_id.           *)
(***************************************************************************)
EXTENDS Integers, Sequences, FiniteSets, TLC

\* ------------------------------------------------------------------ bounds
NumSkus == 2
MaxRetries == 3
MaxResumes == 1
MaxAttemptIn == 3
MaxScore == 150
MaxCalls == 2

\* --------------------------------------------------------------- constants
None == "None"
NoneNum == -9999
NoSku == 0
AUTO == -1
DefaultUpper == 30
DefaultLower == -20
MockBaseline == 92

SkuIds == 1..NumSkus

\* a SKU the signal provider has no values for
UnknownSku == NumSkus + 1

ApproveSynonyms == {"approve", "approved", "yes", "y"}
RejectSynonyms == {"reject", "rejected", "no", "n"}
UiApproveSynonyms == {"approve", "approved", "y", "yes"}

DecisionInputs == {None, "approve", " Reject ", "maybe"}

\* (value or "").strip().lower() on the decision strings of DecisionInputs
strip_lower(d) ==
    CASE d = None -> ""
      [] d = " Reject " -> "reject"
      [] OTHER -> d

\* ------------------------------------------------------- signal provider
RequiredTools ==
    << "fetch_consensus_demand_driver", "fetch_social_signal_drivers",
       "fetch_marketing_spend_drivers", "fetch_trade_promo_drivers",
       "fetch_digital_shelf_drivers", "fetch_weather_environment_drivers",
       "fetch_competitor_data_drivers" >>

ToolSet == {RequiredTools[i] : i \in DOMAIN RequiredTools}

BaselineName == "Statistical Baseline Forecast"

\* required_by_tool[tool_name]: the driver names a tool must have delivered
required_by_tool(tool_name) ==
    CASE tool_name = "fetch_consensus_demand_driver" -> {BaselineName}
      [] tool_name = "fetch_social_signal_drivers" ->
            {"Ingredient Trend Velocity", "Brand Sentiment Score",
             "Viral Hashtag Volume", "Influencer Mention Count"}
      [] tool_name = "fetch_marketing_spend_drivers" ->
            {"Performance Marketing Spend", "Campaign Click-Through-Rate (CTR)",
             "Video Completion Rate", "Retargeting Pool Size"}
      [] tool_name = "fetch_trade_promo_drivers" ->
            {"On-Platform Discount Depth", "Bundle Offer Active Status",
             "Flash Sale Participation", "Cart-Level Offer Conversion"}
      [] tool_name = "fetch_digital_shelf_drivers" ->
            {"Share of Search (Keyword Rank)", "Product Detail Page (PDP) Views",
             "Buy Box Win Rate", "Rating & Review Velocity"}
      [] tool_name = "fetch_weather_environment_drivers" ->
            {"Max Temperature Forecast", "Humidity Index", "UV Index",
             "Air Quality Index (AQI)"}
      [] tool_name = "fetch_competitor_data_drivers" ->
            {"Competitor Price Gap", "Competitor Out-of-Stock Status",
             "Competitor Promo Intensity", "Competitor New Launch Signal"}

RequiredNames == UNION {required_by_tool(t) : t \in ToolSet}

\* the keys of the breakdown of calculate_final_demand_boost, in its order
Categories ==
    << "social", "marketing", "trade_promo", "digital_shelf", "weather", "competitor" >>

CategorySet == {Categories[i] : i \in DOMAIN Categories}

\* The driver values of one context key (a signal set): whether the mapping
\* holds any value at all, the baseline value (hundredths of a unit) and
\* whether it is text that is no number, the required names that are missing
\* and those present with a null value, the net score (hundredths) each
\* category calculator derives from its drivers, and the point-of-sale /
\* open-order drivers present (name and value).  signals[sku] is the signal
\* set of sku in the context (customer, location, date) of the current request.
NoScores == [c \in CategorySet |-> 0]

\* the point-of-sale / open-order drivers of a context, as the pair
\* << "Real-Time Sales Velocity" in tenths, "Distributor Open Orders" >> with
\* NoneNum for a driver the mapping does not hold: no such driver, and the
\* drivers of the mock context
NoPos == << NoneNum, NoneNum >>
MockPos == << 124, 320 >>

EmptyProfile ==
    [values |-> FALSE, baseline |-> 0, baseline_text |-> FALSE,
     missing |-> RequiredNames, nulls |-> {}, score |-> NoScores, pos |-> NoPos]

\* total boost 0.10, every required driver present
BaseProfile ==
    [values |-> TRUE, baseline |-> MockBaseline * 100, baseline_text |-> FALSE,
     missing |-> {}, nulls |-> {}, score |-> [NoScores EXCEPT !["social"] = 35],
     pos |-> MockPos]

\* raw total 0.90, clamped to 0.60: complete, and with one weather driver
\* missing
Profiles ==
    { BaseProfile,
      [BaseProfile EXCEPT !.score = [NoScores EXCEPT !["social"] = 120, !["marketing"] = 100]],
      [BaseProfile EXCEPT !.score = [NoScores EXCEPT !["social"] = 120, !["marketing"] = 100],
                          !.missing = {"Max Temperature Forecast"}] }

VARIABLES signals, pc, st, planned, approved, now, g, ui_decision, rt

vars == << signals, pc, st, planned, approved, now, g, ui_decision, rt >>

_get_values(sku) == IF sku \in SkuIds THEN signals[sku] ELSE EmptyProfile

\* every product of the mock master data is class A / Y
fetch_relevant_products_by_abc_xyz(abc_class) ==
    IF abc_class = "A" THEN [i \in 1..NumSkus |-> i] ELSE << >>

\* ------------------------------------------------------ boost calculators
\* _step_boost_from_signed_score without the band below 1.20 being 0.40
\* followed by one more band
_step_boost_from_signed_score_nine_bands(score) ==
    IF score <= -100 THEN -30
    ELSE IF score <= -70 THEN -20
    ELSE IF score <= -35 THEN -10
    ELSE IF score < 35 THEN 0
    ELSE IF score < 60 THEN 10
    ELSE IF score < 80 THEN 20
    ELSE IF score < 100 THEN 30
    ELSE IF score < 120 THEN 40
    ELSE 60

_step_boost_from_signed_score(score) ==
    IF score <= -100 THEN -30
    ELSE IF score <= -70 THEN -20
    ELSE IF score <= -35 THEN -10
    ELSE IF score < 35 THEN 0
    ELSE IF score < 60 THEN 10
    ELSE IF score < 80 THEN 20
    ELSE IF score < 100 THEN 30
    ELSE IF score < 120 THEN 40
    ELSE IF score < 140 THEN 50
    ELSE 60

\* _step_boost_from_competitor_net with the upper bands of the signed step
_step_boost_from_competitor_net_wide(net_score) ==
    IF net_score <= -80 THEN -30
    ELSE IF net_score <= -50 THEN -20
    ELSE IF net_score <= -20 THEN -10
    ELSE IF net_score < 20 THEN 0
    ELSE IF net_score < 50 THEN 10
    ELSE IF net_score < 80 THEN 20
    ELSE IF net_score < 100 THEN 30
    ELSE 40

_step_boost_from_competitor_net(net_score) ==
    IF net_score <= -80 THEN -30
    ELSE IF net_score <= -50 THEN -20
    ELSE IF net_score <= -20 THEN -10
    ELSE IF net_score < 20 THEN 0
    ELSE IF net_score < 50 THEN 10
    ELSE IF net_score < 80 THEN 20
    ELSE 30

\* ---------------------------------------------- raw driver values
\* The value stored under a driver name: absent from the mapping, null, a
\* boolean, text, or a number.  Text that spells a number is a number here,
\* as float() makes it one.
Absent == [kind |-> "absent", num |-> 0, flag |-> FALSE, text |-> ""]
Null == [kind |-> "null", num |-> 0, flag |-> FALSE, text |-> ""]
BoolValue(b) == [kind |-> "bool", num |-> 0, flag |-> b, text |-> ""]
TextValue(t) == [kind |-> "text", num |-> 0, flag |-> FALSE, text |-> t]
NumValue(n) == [kind |-> "number", num |-> n, flag |-> FALSE, text |-> ""]

\* _safe_float; unit is the model's integer for the float 1.0 in the scale
\* of the driver (100 for a ratio held in hundredths, 1 for a count), since
\* float(True) is 1.0 and float(False) is 0.0
_safe_float(value, unit) ==
    CASE value.kind \in {"absent", "null"} -> NoneNum
      [] value.kind = "number" -> value.num
      [] value.kind = "bool" -> (IF value.flag THEN unit ELSE 0)
      [] value.kind = "text" -> NoneNum

\* _safe_bool: "True", "False" or None
_safe_bool(value) ==
    CASE value.kind \in {"absent", "null"} -> None
      [] value.kind = "bool" -> (IF value.flag THEN "True" ELSE "False")
      [] value.kind = "text" ->
            (IF value.text \in {"true", "1", "yes", "y"} THEN "True"
             ELSE IF value.text \in {"false", "0", "no", "n"} THEN "False"
             ELSE None)
      [] value.kind = "number" -> None

\* calculate_social_signal_demand_boost on the mapping values; trend is in
\* hundredths, the other three drivers are counts
calculate_social_signal_demand_boost(values) ==
    LET trend == _safe_float(values["Ingredient Trend Velocity"], 100)
        sentiment == _safe_float(values["Brand Sentiment Score"], 1)
        hashtags == _safe_float(values["Viral Hashtag Volume"], 1)
        influencer == _safe_float(values["Influencer Mention Count"], 1)
        tailwinds ==
            (IF trend = NoneNum THEN 0
             ELSE IF trend >= 30 THEN 40 ELSE IF trend >= 15 THEN 25
             ELSE IF trend >= 5 THEN 10 ELSE 0)
            + (IF sentiment = NoneNum THEN 0
               ELSE IF sentiment >= 80 THEN 30 ELSE IF sentiment >= 70 THEN 20
               ELSE IF sentiment >= 60 THEN 10 ELSE 0)
            + (IF hashtags = NoneNum THEN 0
               ELSE IF hashtags >= 2000 THEN 25 ELSE IF hashtags >= 1200 THEN 15
               ELSE IF hashtags >= 600 THEN 5 ELSE 0)
            + (IF influencer = NoneNum THEN 0
               ELSE IF influencer >= 30 THEN 25 ELSE IF influencer >= 15 THEN 15
               ELSE IF influencer >= 5 THEN 5 ELSE 0)
        headwinds ==
            (IF trend = NoneNum \/ trend >= 5 THEN 0
             ELSE IF trend <= -15 THEN 30 ELSE IF trend <= -5 THEN 15 ELSE 0)
            + (IF sentiment = NoneNum \/ sentiment >= 60 THEN 0
               ELSE IF sentiment <= 40 THEN 35 ELSE IF sentiment <= 50 THEN 20 ELSE 0)
            + (IF hashtags = NoneNum \/ hashtags >= 600 THEN 0
               ELSE IF hashtags < 200 THEN 10 ELSE 0)
            + (IF influencer = NoneNum \/ influencer >= 5 THEN 0
               ELSE IF influencer < 2 THEN 10 ELSE 0)
        net_score == tailwinds - headwinds
    IN [boost_percent |-> _step_boost_from_signed_score(net_score),
        net_score |-> net_score]

\* calculate_trade_promo_demand_boost on the mapping values; discount and
\* cart conversion are in hundredths
calculate_trade_promo_demand_boost(values) ==
    LET discount == _safe_float(values["On-Platform Discount Depth"], 100)
        bundle == _safe_bool(values["Bundle Offer Active Status"])
        flash == _safe_bool(values["Flash Sale Participation"])
        cart_conv == _safe_float(values["Cart-Level Offer Conversion"], 100)
        tailwinds ==
            (IF discount = NoneNum THEN 0
             ELSE IF discount >= 30 THEN 45 ELSE IF discount >= 20 THEN 35
             ELSE IF discount >= 10 THEN 20 ELSE IF discount >= 5 THEN 10 ELSE 0)
            + (IF bundle = "True" THEN 15 ELSE 0)
            + (IF flash = "True" THEN 25 ELSE 0)
            + (IF cart_conv = NoneNum THEN 0
               ELSE IF cart_conv >= 10 THEN 20 ELSE IF cart_conv >= 6 THEN 12
               ELSE IF cart_conv >= 3 THEN 6 ELSE 0)
        headwinds ==
            (IF discount = NoneNum \/ discount >= 5 THEN 0
             ELSE IF discount < 1 THEN 10 ELSE 0)
            + (IF cart_conv = NoneNum \/ cart_conv >= 3 THEN 0
               ELSE IF cart_conv < 1 THEN 15 ELSE IF cart_conv < 2 THEN 8 ELSE 0)
            + (IF /\ bundle \in {"False", None}
                  /\ flash \in {"False", None}
                  /\ discount # NoneNum /\ discount < 2
               THEN 10 ELSE 0)
        net_score == tailwinds - headwinds
    IN [boost_percent |-> _step_boost_from_signed_score(net_score),
        net_score |-> net_score]

\* the "boost_percent" of the calculator of a category
category_boost(sku, category) ==
    LET net_score == _get_values(sku).score[category]
    IN IF category = "competitor" THEN _step_boost_from_competitor_net(net_score)
       ELSE _step_boost_from_signed_score(net_score)

CapMin == -30
CapMax == 60

\* the clamp of calculate_final_demand_boost with the lower cap left out
clamp_total_no_floor(raw_total) == IF raw_total > CapMax THEN CapMax ELSE raw_total

clamp_total(raw_total) ==
    IF raw_total < CapMin THEN CapMin
    ELSE IF raw_total > CapMax THEN CapMax
    ELSE raw_total

\* calculate_final_demand_boost with the digital-shelf boost left out of
\* the sum
calculate_final_demand_boost_five_summed(sku) ==
    LET breakdown == [c \in CategorySet |-> category_boost(sku, c)]
        raw_total == breakdown["social"] + breakdown["marketing"]
                     + breakdown["trade_promo"]
                     + breakdown["weather"] + breakdown["competitor"]
    IN [raw_total_boost_percent |-> raw_total,
        total_boost_percent |-> clamp_total(raw_total),
        breakdown |-> breakdown]

\* In hundredths round(x, 4) leaves a total as it is.
calculate_final_demand_boost(sku) ==
    LET breakdown == [c \in CategorySet |-> category_boost(sku, c)]
        raw_total == breakdown["social"] + breakdown["marketing"]
                     + breakdown["trade_promo"] + breakdown["digital_shelf"]
                     + breakdown["weather"] + breakdown["competitor"]
    IN [raw_total_boost_percent |-> raw_total,
        total_boost_percent |-> clamp_total(raw_total),
        breakdown |-> breakdown]

\* ------------------------------------------------------------ actor, critic
NoForecast ==
    [baseline_forecast |-> NoneNum, total_boost_percent |-> NoneNum,
     final_demand_forecast |-> NoneNum]

\* _safe_float(values.get("Statistical Baseline Forecast")) or 0.0
baseline_f(sku) ==
    LET p == _get_values(sku)
    IN IF BaselineName \in p.missing \cup p.nulls \/ p.baseline_text THEN 0
       ELSE p.baseline

\* round(x, 2) cutting the digits after the second decimal
round_2_truncating(x) == IF x >= 0 THEN x \div 100 ELSE -((-x) \div 100)

\* round(x, 2) of x given in ten-thousandths, in hundredths; a value exactly
\* halfway between two hundredths is rounded as its binary float falls, and
\* no input of the model produces one
round_2(x) == (x + 50) \div 100

calculate_final_demand_forecast(sku) ==
    LET total_boost == calculate_final_demand_boost(sku).total_boost_percent
    IN [baseline_forecast |-> baseline_f(sku),
        total_boost_percent |-> total_boost,
        final_demand_forecast |-> round_2(baseline_f(sku) * (100 + total_boost))]

NoReview ==
    [decision |-> None, outside_thresholds |-> FALSE, rerun_recommendations |-> << >>,
     total_boost_percent |-> NoneNum, tool_health |-> [t \in ToolSet |-> None]]

\* the total the Critic reviews, taken before the clamp
reviewed_total_raw(sku) == calculate_final_demand_boost(sku).raw_total_boost_percent

\* total = float(final_boost["total_boost_percent"])
reviewed_total(sku) == calculate_final_demand_boost(sku).total_boost_percent

\* the threshold test with non-strict comparisons
outside_thresholds_of_inclusive(total, upper_threshold, lower_threshold) ==
    total >= upper_threshold \/ total <= lower_threshold

outside_thresholds_of(total, upper_threshold, lower_threshold) ==
    total > upper_threshold \/ total < lower_threshold

\* the health of a tool with null values not looked at
tool_status_ignoring_nulls(sku, tool_name) ==
    LET p == _get_values(sku)
    IN IF ~p.values THEN "missing_context_data"
       ELSE IF required_by_tool(tool_name) \cap p.missing # {} THEN "incomplete"
       ELSE "ok"

\* the health of a tool when a point-of-sale driver is required as well
tool_status_requiring_pos(sku, tool_name) ==
    LET p == _get_values(sku)
        missing == required_by_tool(tool_name) \cap p.missing
        nulls == (required_by_tool(tool_name) \ p.missing) \cap p.nulls
    IN IF ~p.values THEN "missing_context_data"
       ELSE IF missing # {} \/ nulls # {} \/ p.pos = NoPos THEN "incomplete"
       ELSE "ok"

\* tool_health[tool_name]["status"]
tool_status(sku, tool_name) ==
    LET p == _get_values(sku)
        missing == required_by_tool(tool_name) \cap p.missing
        nulls == (required_by_tool(tool_name) \ p.missing) \cap p.nulls
    IN IF ~p.values THEN "missing_context_data"
       ELSE IF missing # {} \/ nulls # {} THEN "incomplete"
       ELSE "ok"

critic_review_consensus_demand_boost(sku, upper_threshold, lower_threshold) ==
    LET total == reviewed_total(sku)
        outside_thresholds == outside_thresholds_of(total, upper_threshold, lower_threshold)
        tool_health == [t \in ToolSet |-> tool_status(sku, t)]
        rerun_recommendations == SelectSeq(RequiredTools, LAMBDA t : tool_health[t] # "ok")
        all_tools_ok == \A t \in ToolSet : tool_health[t] = "ok"
        decision == IF outside_thresholds
                    THEN (IF all_tools_ok THEN "route_to_human_approval" ELSE "ask_actor_rerun")
                    ELSE (IF all_tools_ok THEN "within_thresholds" ELSE "ask_actor_rerun")
    IN [decision |-> decision, outside_thresholds |-> outside_thresholds,
        rerun_recommendations |-> rerun_recommendations,
        total_boost_percent |-> total, tool_health |-> tool_health]

\* ------------------------------------------------- planned / approved stores
\* A store is the list of rows of its JSON file.  _key(row) is row.sku_id.
Max(S) == CHOOSE x \in S : \A y \in S : y <= x
Min(S) == CHOOSE x \in S : \A y \in S : x <= y

RECURSIVE SortedKeys(_)
SortedKeys(K) == IF K = {} THEN << >> ELSE << Min(K) >> \o SortedKeys(K \ {Min(K)})

\* the dedupe keeping the last row of a key in file order
LatestIndex_last_row(rows, k, ts) == Max({i \in DOMAIN rows : rows[i].sku_id = k})

\* dedupe of a load: rows are scanned in file order and a later row replaces
\* the kept one when its timestamp is >= the kept one's
\* (ts is the name of the timestamp field)
LatestIndex(rows, k, ts) ==
    LET I == {i \in DOMAIN rows : rows[i].sku_id = k}
        top == Max({rows[i][ts] : i \in I})
    IN Max({i \in I : rows[i][ts] = top})

\* the legacy rule of a load with the test for an explicit fraction left out
normalize_row_any(row) ==
    IF -100 <= row.total_boost_percent /\ row.total_boost_percent <= 100
    THEN [row EXCEPT !.total_boost_fraction = row.total_boost_percent,
                     !.total_boost_percent = 100 * row.total_boost_percent]
    ELSE row

\* a row without total_boost_fraction (NoneNum) whose total_boost_percent is
\* within [-1.0, 1.0] holds a fraction there: the fraction field gets that
\* value and the percent field round(frac * 100.0, 2).  A fraction and a
\* percent are both kept in hundredths, so the fraction takes the same
\* integer and the percent a hundred times it.
normalize_row(row) ==
    IF /\ row.total_boost_fraction = NoneNum
       /\ row.total_boost_percent # NoneNum
       /\ -100 <= row.total_boost_percent /\ row.total_boost_percent <= 100
    THEN [row EXCEPT !.total_boost_fraction = row.total_boost_percent,
                     !.total_boost_percent = 100 * row.total_boost_percent]
    ELSE row

\* (in the store operators a value that is used more than once is bound by a
\* one-element set, so that it is computed once)
load_consensus_demands(file) ==
    CHOOSE rows \in
        { [j \in DOMAIN keys |->
              CHOOSE row \in
                  { normalize_row(kept) :
                      kept \in {file[LatestIndex(file, keys[j], "updated_at")]} } : TRUE] :
            keys \in {SortedKeys({file[i].sku_id : i \in DOMAIN file})} } : TRUE

load_approved_consensus_demands(file) ==
    CHOOSE rows \in
        { [j \in DOMAIN keys |->
              CHOOSE row \in
                  { normalize_row(kept) :
                      kept \in {file[LatestIndex(file, keys[j], "approved_at")]} } : TRUE] :
            keys \in {SortedKeys({file[i].sku_id : i \in DOMAIN file})} } : TRUE

FirstIndex(rows, k) ==
    LET I == {i \in DOMAIN rows : rows[i].sku_id = k}
    IN IF I = {} THEN 0 ELSE Min(I)

\* upsert_consensus_demand appending the row whether or not the key has one
upsert_consensus_demand_append(file, record, t) ==
    LET write(rows) ==
            LET row == [sku_id |-> record.sku_id,
                        baseline_forecast |-> record.baseline_forecast,
                        total_boost_fraction |-> record.total_boost_fraction,
                        total_boost_percent |-> record.total_boost_percent,
                        final_demand_forecast |-> record.final_demand_forecast,
                        critic_decision |-> record.critic_decision,
                        took_approval_route |-> record.took_approval_route,
                        approval_status |-> record.approval_status,
                        created_at |-> t,
                        updated_at |-> t + 1]
            IN [file |-> Append(rows, row), now |-> t + 2]
    IN CHOOSE out \in {write(rows) : rows \in {load_consensus_demands(file)}} : TRUE

\* upsert_consensus_demand giving the row a new created_at on every call
upsert_consensus_demand_recreate(file, record, t) ==
    LET write(rows, i) ==
            LET row == [sku_id |-> record.sku_id,
                        baseline_forecast |-> record.baseline_forecast,
                        total_boost_fraction |-> record.total_boost_fraction,
                        total_boost_percent |-> record.total_boost_percent,
                        final_demand_forecast |-> record.final_demand_forecast,
                        critic_decision |-> record.critic_decision,
                        took_approval_route |-> record.took_approval_route,
                        approval_status |-> record.approval_status,
                        created_at |-> t,
                        updated_at |-> t + 1]
            IN [file |-> IF i = 0 THEN Append(rows, row) ELSE [rows EXCEPT ![i] = row],
                now |-> t + 2]
    IN CHOOSE out \in
           { write(rows, FirstIndex(rows, record.sku_id)) :
               rows \in {load_consensus_demands(file)} } : TRUE

\* upsert_consensus_demand(record) at clock t: the new file and clock
upsert_consensus_demand(file, record, t) ==
    LET write(rows, i) ==
            LET created == IF i = 0 THEN t ELSE rows[i].created_at
                row == [sku_id |-> record.sku_id,
                        baseline_forecast |-> record.baseline_forecast,
                        total_boost_fraction |-> record.total_boost_fraction,
                        total_boost_percent |-> record.total_boost_percent,
                        final_demand_forecast |-> record.final_demand_forecast,
                        critic_decision |-> record.critic_decision,
                        took_approval_route |-> record.took_approval_route,
                        approval_status |-> record.approval_status,
                        created_at |-> created,
                        updated_at |-> t + 1]
            IN [file |-> IF i = 0 THEN Append(rows, row) ELSE [rows EXCEPT ![i] = row],
                now |-> t + 2]
    IN CHOOSE out \in
           { write(rows, FirstIndex(rows, record.sku_id)) :
               rows \in {load_consensus_demands(file)} } : TRUE

\* set_consensus_approval_status appending a row when no row has the key
set_consensus_approval_status_creating(file, sku, approval_status, t) ==
    LET write(rows, i) ==
            IF i = 0
            THEN [file |-> Append(rows, [sku_id |-> sku, baseline_forecast |-> NoneNum,
                                         total_boost_fraction |-> NoneNum,
                                         total_boost_percent |-> NoneNum,
                                         final_demand_forecast |-> NoneNum,
                                         critic_decision |-> None,
                                         took_approval_route |-> FALSE,
                                         approval_status |-> approval_status,
                                         created_at |-> t, updated_at |-> t]),
                  now |-> t + 1, found |-> FALSE]
            ELSE [file |-> [rows EXCEPT ![i] =
                               [rows[i] EXCEPT !.approval_status = approval_status,
                                               !.updated_at = t]],
                  now |-> t + 1, found |-> TRUE]
    IN CHOOSE out \in
           { write(rows, FirstIndex(rows, sku)) :
               rows \in {load_consensus_demands(file)} } : TRUE

\* set_consensus_approval_status(...) at clock t; nothing is written and the
\* clock is not read when no row has the key
set_consensus_approval_status(file, sku, approval_status, t) ==
    LET write(rows, i) ==
            IF i = 0
            THEN [file |-> file, now |-> t, found |-> FALSE]
            ELSE [file |-> [rows EXCEPT ![i] =
                               [rows[i] EXCEPT !.approval_status = approval_status,
                                               !.updated_at = t]],
                  now |-> t + 1, found |-> TRUE]
    IN CHOOSE out \in
           { write(rows, FirstIndex(rows, sku)) :
               rows \in {load_consensus_demands(file)} } : TRUE

save_approved_consensus_demand(file, record, t) ==
    LET write(rows, i) ==
            LET row == [sku_id |-> record.sku_id,
                        baseline_forecast |-> record.baseline_forecast,
                        total_boost_fraction |-> record.total_boost_fraction,
                        total_boost_percent |-> record.total_boost_percent,
                        final_demand_forecast |-> record.final_demand_forecast,
                        approved_at |-> t]
            IN [file |-> IF i = 0 THEN Append(rows, row) ELSE [rows EXCEPT ![i] = row],
                now |-> t + 1]
    IN CHOOSE out \in
           { write(rows, FirstIndex(rows, record.sku_id)) :
               rows \in {load_approved_consensus_demands(file)} } : TRUE

\* float(af.get("total_boost_percent", 0.0)) with af = actor_forecast or {}
boost_frac_of(af) == IF af = NoForecast THEN 0 ELSE af.total_boost_percent

\* af.get(name) with af = actor_forecast or {}
ApprovedRecord(sku, af) ==
    [sku_id |-> sku,
     baseline_forecast |-> af.baseline_forecast,
     total_boost_fraction |-> boost_frac_of(af),
     total_boost_percent |-> boost_frac_of(af) * 100,
     final_demand_forecast |-> af.final_demand_forecast]

\* ------------------------------------------------------------ workflow nodes
\* The state a caller passes to graph.ainvoke for a new request
InputState(scope, sku, abc_class, max_retries, human_decision) ==
    [sku_id |-> sku, scope |-> scope, abc_class |-> abc_class,
     max_retries |-> max_retries, human_decision |-> human_decision,
     upper_threshold |-> DefaultUpper, lower_threshold |-> DefaultLower,
     attempt |-> 1, actor_forecast |-> NoForecast, critic_result |-> NoReview,
     route |-> None, sku_queue |-> << >>, current_sku_index |-> 0,
     results |-> << >>, approval_status |-> None, approval_request |-> NoneNum,
     finalized |-> FALSE, halt_on_pending_approval |-> None]

build_sku_queue_node(s) ==
    LET products == fetch_relevant_products_by_abc_xyz(s.abc_class)
        sku_id == IF s.sku_id = NoSku THEN AUTO ELSE s.sku_id
        sku_queue == IF s.scope = "all_relevant" THEN products
                     ELSE IF sku_id = AUTO
                          THEN (IF Len(products) > 0 THEN << products[1] >> ELSE << >>)
                          ELSE << sku_id >>
        halt == IF s.scope = "all_relevant" THEN "False" ELSE "True"
    IN [s EXCEPT !.sku_queue = sku_queue,
                 !.current_sku_index = 0,
                 !.halt_on_pending_approval = IF @ = None THEN halt ELSE @]

set_current_sku_node(s) ==
    LET idx == s.current_sku_index
    IN [s EXCEPT !.sku_id = IF 0 <= idx /\ idx < Len(s.sku_queue)
                            THEN s.sku_queue[idx + 1] ELSE NoSku,
                 !.attempt = 1,
                 !.actor_forecast = NoForecast,
                 !.critic_result = NoReview]

actor_node(s) == [s EXCEPT !.actor_forecast = calculate_final_demand_forecast(s.sku_id)]

critic_node(s) ==
    [s EXCEPT !.critic_result =
        critic_review_consensus_demand_boost(s.sku_id, s.upper_threshold, s.lower_threshold)]

\* route_node with the retry budget read as "fewer attempts than max_retries"
route_of_retry_budget(decision, rerun_recommendations, max_retries, attempt) ==
    IF decision = "ask_actor_rerun"
    THEN (IF attempt < max_retries /\ Len(rerun_recommendations) > 0
          THEN "rerun" ELSE "finalize")
    ELSE IF decision = "route_to_human_approval" THEN "human_approval"
    ELSE "finalize"

\* route_node without the test that rerun_recommendations is non-empty
route_of_any_reruns(decision, rerun_recommendations, max_retries, attempt) ==
    IF decision = "ask_actor_rerun"
    THEN (IF attempt = 1 /\ max_retries >= 2 THEN "rerun" ELSE "finalize")
    ELSE IF decision = "route_to_human_approval" THEN "human_approval"
    ELSE "finalize"

\* route_node sending a route_to_human_approval decision straight to finalize
route_of_skipping_approval(decision, rerun_recommendations, max_retries, attempt) ==
    IF decision = "ask_actor_rerun"
    THEN (IF attempt = 1 /\ max_retries >= 2 /\ Len(rerun_recommendations) > 0
          THEN "rerun" ELSE "finalize")
    ELSE "finalize"

route_of(decision, rerun_recommendations, max_retries, attempt) ==
    IF decision = "ask_actor_rerun"
    THEN (IF attempt = 1 /\ max_retries >= 2 /\ Len(rerun_recommendations) > 0
          THEN "rerun" ELSE "finalize")
    ELSE IF decision = "route_to_human_approval" THEN "human_approval"
    ELSE "finalize"

route_node(s) ==
    [s EXCEPT !.route = route_of(s.critic_result.decision,
                                 s.critic_result.rerun_recommendations,
                                 s.max_retries, s.attempt)]

\* the conditional edges out of "route"
_router(route) ==
    CASE route = "rerun" -> "bump_attempt"
      [] route = "human_approval" -> "human_approval"
      [] route = "finalize" -> "finalize"

bump_attempt_node(s) == [s EXCEPT !.attempt = s.attempt + 1]

human_approval_node(s) ==
    LET decision == strip_lower(s.human_decision)
    IN IF decision \in ApproveSynonyms
       THEN [s EXCEPT !.approval_request = s.sku_id,
                      !.approval_status = "approved", !.human_decision = "approve"]
       ELSE IF decision \in RejectSynonyms
       THEN [s EXCEPT !.approval_request = s.sku_id,
                      !.approval_status = "rejected", !.human_decision = "reject"]
       ELSE [s EXCEPT !.approval_request = s.sku_id, !.approval_status = "pending"]

\* _hitl_router with an approved item sent straight to store_result
_hitl_router_approved_stores(s) == "store_result"

\* _hitl_router with "pending ends early": a pending item skips store_result
_hitl_router_pending_ends(s) ==
    LET status == IF s.approval_status = None THEN "pending" ELSE s.approval_status
    IN CASE status = "pending" -> "next_sku_or_end"
         [] status = "approved" -> "finalize"
         [] status = "rejected" -> "store_result"

_hitl_router(s) ==
    LET status == IF s.approval_status = None THEN "pending" ELSE s.approval_status
    IN CASE status = "pending" -> "store_result"
         [] status = "approved" -> "finalize"
         [] status = "rejected" -> "store_result"

\* the state part of finalize_node
finalize_node(s) ==
    [s EXCEPT !.finalized = TRUE,
              !.approval_status = IF @ = None THEN "not_required" ELSE @]

\* finalize_node writing back unless the item was rejected
finalize_writes_unless_rejected(s) == s.approval_status # "rejected"

\* the write-back condition of finalize_node
finalize_writes(s) == s.approval_status = "approved"

Snapshot(s) ==
    [sku_id |-> s.sku_id, actor_forecast |-> s.actor_forecast,
     critic_result |-> s.critic_result, approval_status |-> s.approval_status,
     human_decision |-> s.human_decision, finalized |-> s.finalized,
     approval_request |-> s.approval_request]

PlannedRecord(s) ==
    [sku_id |-> s.sku_id,
     baseline_forecast |-> s.actor_forecast.baseline_forecast,
     total_boost_fraction |-> boost_frac_of(s.actor_forecast),
     total_boost_percent |-> boost_frac_of(s.actor_forecast) * 100,
     final_demand_forecast |-> s.actor_forecast.final_demand_forecast,
     critic_decision |-> s.critic_result.decision,
     took_approval_route |-> (s.critic_result.decision = "route_to_human_approval"),
     approval_status |-> IF s.approval_status = None THEN "pending" ELSE s.approval_status]

store_result_node(s) == [s EXCEPT !.results = Append(s.results, Snapshot(s))]

\* next_sku_or_end_node ending the run at an item left pending
next_sku_or_end_node_halt(s) ==
    [s EXCEPT !.route = IF s.current_sku_index + 1 < Len(s.sku_queue)
                           /\ s.approval_status # "pending"
                        THEN "next_sku" ELSE "end"]

next_sku_or_end_node(s) ==
    [s EXCEPT !.route = IF s.current_sku_index + 1 < Len(s.sku_queue)
                        THEN "next_sku" ELSE "end"]

\* bump_sku_index_node advancing the cursor by two
bump_sku_index_node_skip(s) == [s EXCEPT !.current_sku_index = s.current_sku_index + 2]

bump_sku_index_node(s) == [s EXCEPT !.current_sku_index = s.current_sku_index + 1]

\* ----------------------------------------- local approve / reject of the UI
\* _apply_human_decision_locally(sku_id, decision) from result i on; acc holds
\* the results of last_output, both store files and the clock
RECURSIVE apply_human_decision_from(_, _, _, _)
apply_human_decision_from(i, acc, sku_id, decision) ==
    IF i > Len(acc.results) THEN acc
    ELSE LET r == acc.results[i]
         IN IF r.sku_id # sku_id \/ r.approval_status # "pending"
            THEN apply_human_decision_from(i + 1, acc, sku_id, decision)
            ELSE IF strip_lower(decision) \in UiApproveSynonyms
            THEN LET saved == save_approved_consensus_demand(
                                  acc.approved, ApprovedRecord(sku_id, r.actor_forecast), acc.now)
                     marked == set_consensus_approval_status(
                                  acc.planned, sku_id, "approved", saved.now)
                 IN apply_human_decision_from(i + 1,
                        [results |-> [acc.results EXCEPT ![i] =
                                         [r EXCEPT !.approval_status = "approved",
                                                   !.human_decision = "approve",
                                                   !.finalized = TRUE]],
                         planned |-> marked.file, approved |-> saved.file,
                         now |-> marked.now],
                        sku_id, decision)
            ELSE LET marked == set_consensus_approval_status(
                                  acc.planned, sku_id, "rejected", acc.now)
                 IN apply_human_decision_from(i + 1,
                        [results |-> [acc.results EXCEPT ![i] =
                                         [r EXCEPT !.approval_status = "rejected",
                                                   !.human_decision = "reject",
                                                   !.finalized = FALSE]],
                         planned |-> marked.file, approved |-> acc.approved,
                         now |-> marked.now],
                        sku_id, decision)

_apply_human_decision_locally(results, planned_file, approved_file, t, sku_id, decision) ==
    apply_human_decision_from(1,
        [results |-> results, planned |-> planned_file, approved |-> approved_file, now |-> t],
        sku_id, decision)

\* ------------------------------------------------------------------- state
\* g is bookkeeping about the current invocation of the graph: how it was
\* started, how many re-entries were made, the length of results when it
\* started, the status the previous invocation returned, how often the actor
\* and store_result ran for the current item and how many approved records
\* the invocation wrote.  ui_decision is the decision string of the latest
\* approve / reject click that changed a result since the last invocation.
NoRun == [kind |-> "none", resumes |-> 0, base |-> 0, prev_status |-> None,
          nActor |-> 0, nStore |-> 0, nApproved |-> 0]
NoCall == "<no call>"
NoRoute == [decision |-> None, attempt |-> 1, max_retries |-> 1,
            rerun_recommendations |-> << >>, route |-> None, next |-> None]

Init ==
    /\ signals = [k \in SkuIds |-> BaseProfile]
    /\ pc = "idle"
    /\ st = InputState("single", AUTO, "A", 1, None)
    /\ planned = << >>
    /\ approved = << >>
    /\ now = 0
    /\ g = NoRun
    /\ ui_decision = NoCall
    /\ rt = NoRoute

\* the SKUs a new request can evaluate
Evaluated(scope, sku, abc_class) ==
    IF scope = "all_relevant" \/ sku = AUTO
    THEN LET products == fetch_relevant_products_by_abc_xyz(abc_class)
         IN IF scope = "all_relevant" THEN {products[i] : i \in DOMAIN products}
            ELSE {products[i] : i \in DOMAIN products \cap {1}}
    ELSE {sku}

\* graph.ainvoke(state) with a new request; sig is what the signal provider
\* holds for the request's context (SKUs the request cannot reach keep the
\* base profile)
StartRun ==
    /\ pc = "idle"
    /\ \E scope \in {"single", "all_relevant"}, sku \in SkuIds \cup {AUTO, UnknownSku},
          abc_class \in {"A", "C"}, max_retries \in 1..MaxRetries,
          human_decision \in DecisionInputs, sig \in [SkuIds -> Profiles] :
          /\ (scope = "all_relevant" => sku = AUTO)
          /\ (sku # AUTO => abc_class = "A")
          /\ \A k \in SkuIds \ Evaluated(scope, sku, abc_class) : sig[k] = BaseProfile
          /\ signals' = sig
          /\ st' = InputState(scope, sku, abc_class, max_retries, human_decision)
    /\ pc' = "parse_request"
    /\ g' = [g EXCEPT !.kind = "fresh", !.prev_status = None, !.base = 0,
                      !.nActor = 0, !.nStore = 0, !.nApproved = 0]
    /\ ui_decision' = NoCall
    /\ UNCHANGED << planned, approved, now, rt >>

\* graph.ainvoke(dict(out) + human_decision): re-entry with the returned state
Resume(human_decision) ==
    /\ pc = "END"
    /\ g.resumes < MaxResumes
    /\ st' = [st EXCEPT !.human_decision = human_decision]
    /\ pc' = "parse_request"
    /\ g' = [g EXCEPT !.kind = "resume", !.resumes = @ + 1,
                      !.prev_status = st.approval_status,
                      !.base = Len(st.results),
                      !.nActor = 0, !.nStore = 0, !.nApproved = 0]
    /\ ui_decision' = NoCall
    /\ UNCHANGED << signals, planned, approved, now, rt >>

\* parse_request_node: every input the model varies is set by the caller, so
\* the setdefault calls leave the state as it is
ParseRequest ==
    /\ pc = "parse_request"
    /\ pc' = "build_sku_queue"
    /\ UNCHANGED << signals, ui_decision, st, planned, approved, now, g, rt >>

BuildSkuQueue ==
    /\ pc = "build_sku_queue"
    /\ st' = build_sku_queue_node(st)
    /\ pc' = "set_current_sku"
    /\ UNCHANGED << signals, ui_decision, planned, approved, now, g, rt >>

SetCurrentSku ==
    /\ pc = "set_current_sku"
    /\ st' = set_current_sku_node(st)
    /\ pc' = "actor"
    /\ g' = [g EXCEPT !.nActor = 0, !.nStore = 0]
    /\ UNCHANGED << signals, ui_decision, planned, approved, now, rt >>

Actor ==
    /\ pc = "actor"
    /\ st' = actor_node(st)
    /\ pc' = "critic"
    /\ g' = [g EXCEPT !.nActor = @ + 1]
    /\ UNCHANGED << signals, ui_decision, planned, approved, now, rt >>

Critic ==
    /\ pc = "critic"
    /\ st' = critic_node(st)
    /\ pc' = "route"
    /\ UNCHANGED << signals, ui_decision, planned, approved, now, g, rt >>

Route ==
    /\ pc = "route"
    /\ st' = route_node(st)
    /\ pc' = _router(st'.route)
    /\ UNCHANGED << signals, ui_decision, planned, approved, now, g, rt >>

BumpAttempt ==
    /\ pc = "bump_attempt"
    /\ st' = bump_attempt_node(st)
    /\ pc' = "actor"
    /\ UNCHANGED << signals, ui_decision, planned, approved, now, g, rt >>

HumanApproval ==
    /\ pc = "human_approval"
    /\ st' = human_approval_node(st)
    /\ pc' = _hitl_router(st')
    /\ UNCHANGED << signals, ui_decision, planned, approved, now, g, rt >>

Finalize ==
    /\ pc = "finalize"
    /\ st' = finalize_node(st)
    /\ IF finalize_writes(st')
       THEN \E saved \in {save_approved_consensus_demand(
                              approved, ApprovedRecord(st.sku_id, st.actor_forecast), now)} :
               /\ approved' = saved.file
               /\ now' = saved.now
               /\ g' = [g EXCEPT !.nApproved = @ + 1]
       ELSE UNCHANGED << approved, now, g >>
    /\ pc' = "store_result"
    /\ UNCHANGED << signals, ui_decision, planned, rt >>

StoreResult ==
    /\ pc = "store_result"
    /\ st' = store_result_node(st)
    /\ \E up \in {upsert_consensus_demand(planned, PlannedRecord(st), now)} :
          /\ planned' = up.file
          /\ now' = up.now
    /\ g' = [g EXCEPT !.nStore = @ + 1]
    /\ pc' = "next_sku_or_end"
    /\ UNCHANGED << signals, ui_decision, approved, rt >>

NextSkuOrEnd ==
    /\ pc = "next_sku_or_end"
    /\ st' = next_sku_or_end_node(st)
    /\ pc' = IF st'.route = "next_sku" THEN "bump_sku_index" ELSE "END"
    /\ UNCHANGED << signals, ui_decision, planned, approved, now, g, rt >>

BumpSkuIndex ==
    /\ pc = "bump_sku_index"
    /\ st' = bump_sku_index_node(st)
    /\ pc' = "set_current_sku"
    /\ UNCHANGED << signals, ui_decision, planned, approved, now, g, rt >>

\* an Approve / Reject click on the results of the last run
ApplyLocal(sku_id, decision) ==
    /\ pc = "END"
    /\ \E out \in {_apply_human_decision_locally(
                        st.results, planned, approved, now, sku_id, decision)} :
          /\ st' = [st EXCEPT !.results = out.results]
          /\ planned' = out.planned
          /\ approved' = out.approved
          /\ now' = out.now
          /\ ui_decision' = IF out.results = st.results THEN ui_decision ELSE decision
    /\ UNCHANGED << signals, pc, g, rt >>

GraphStep ==
    \/ ParseRequest \/ BuildSkuQueue \/ SetCurrentSku \/ Actor \/ Critic \/ Route
    \/ BumpAttempt \/ HumanApproval \/ Finalize \/ StoreResult \/ NextSkuOrEnd
    \/ BumpSkuIndex

\* Invocations of the compiled graph, as demo_langgraph_hitl.py makes them: a
\* new request, then re-entries with the returned state
Next ==
    \/ StartRun
    \/ \E human_decision \in DecisionInputs \ {None} : Resume(human_decision)
    \/ ParseRequest
    \/ BuildSkuQueue
    \/ SetCurrentSku
    \/ Actor
    \/ Critic
    \/ Route
    \/ BumpAttempt
    \/ HumanApproval
    \/ Finalize
    \/ StoreResult
    \/ NextSkuOrEnd
    \/ BumpSkuIndex

Spec == Init /\ [][Next]_vars

\* ainvoke runs the graph until it returns: a node that can run does run
FairSpec == Init /\ [][Next]_vars /\ WF_vars(GraphStep)

\* The Streamlit app: a request is run through the graph, then the user
\* clicks Approve / Reject on its results
NextUi ==
    \/ StartRun
    \/ ParseRequest
    \/ BuildSkuQueue
    \/ SetCurrentSku
    \/ Actor
    \/ Critic
    \/ Route
    \/ BumpAttempt
    \/ HumanApproval
    \/ Finalize
    \/ StoreResult
    \/ NextSkuOrEnd
    \/ BumpSkuIndex
    \/ \E sku_id \in SkuIds, decision \in DecisionInputs : ApplyLocal(sku_id, decision)

SpecUi == Init /\ [][NextUi]_vars

\* ----------------------------------------------- route_node on its own
RouteDecisions == {"ask_actor_rerun", "route_to_human_approval", "within_thresholds", None}

InitRoute ==
    /\ signals = [k \in SkuIds |-> BaseProfile]
    /\ pc = "idle"
    /\ st = InputState("single", AUTO, "A", 1, None)
    /\ planned = << >>
    /\ approved = << >>
    /\ now = 0
    /\ g = NoRun
    /\ ui_decision = NoCall
    /\ rt \in [decision : RouteDecisions, attempt : 1..MaxAttemptIn,
               max_retries : 0..(MaxRetries + 1),
               rerun_recommendations : {<< >>, << "fetch_weather_environment_drivers" >>},
               route : {None}, next : {None}]

ApplyRoute ==
    /\ rt.route = None
    /\ LET route == route_of(rt.decision, rt.rerun_recommendations,
                             rt.max_retries, rt.attempt)
       IN rt' = [rt EXCEPT !.route = route, !.next = _router(route)]
    /\ UNCHANGED << signals, ui_decision, pc, st, planned, approved, now, g >>

NextRoute == ApplyRoute

SpecRoute == InitRoute /\ [][NextRoute]_vars

\* ------------------------------------------- the step functions on their own
InitSteps ==
    /\ signals = [k \in SkuIds |-> BaseProfile]
    /\ pc = "idle"
    /\ st = InputState("single", AUTO, "A", 1, None)
    /\ planned = << >>
    /\ approved = << >>
    /\ now = 0
    /\ g = NoRun
    /\ ui_decision = NoCall
    /\ rt \in [score : (-MaxScore)..MaxScore, signed : {NoneNum}, competitor : {NoneNum}]

ApplySigned ==
    /\ rt.signed = NoneNum
    /\ rt' = [rt EXCEPT !.signed = _step_boost_from_signed_score(rt.score)]
    /\ UNCHANGED << signals, ui_decision, pc, st, planned, approved, now, g >>

ApplyCompetitor ==
    /\ rt.competitor = NoneNum
    /\ rt' = [rt EXCEPT !.competitor = _step_boost_from_competitor_net(rt.score)]
    /\ UNCHANGED << signals, ui_decision, pc, st, planned, approved, now, g >>

NextSteps == ApplySigned \/ ApplyCompetitor

SpecSteps == InitSteps /\ [][NextSteps]_vars

\* ------------------------- the calculators and the review on their own
NoBoost ==
    [raw_total_boost_percent |-> NoneNum, total_boost_percent |-> NoneNum,
     breakdown |-> [c \in CategorySet |-> NoneNum]]

\* net scores the calculators reach: the extremes of each category, no
\* signal, and the lowest score of the first positive band
ScoreInputs ==
    [social : {-85, 0, 35, 120}, marketing : {-100, 0, 35}, trade_promo : {0, 35},
     digital_shelf : {0, 35}, weather : {-75, 0}, competitor : {-110, 0, 90}]

\* the baseline value: a number, text that is no number, absent, or null
BaselineInputs ==
    { [baseline |-> MockBaseline * 100, baseline_text |-> FALSE, missing |-> {}, nulls |-> {}],
      [baseline |-> 8500, baseline_text |-> FALSE, missing |-> {}, nulls |-> {}],
      [baseline |-> 3332, baseline_text |-> FALSE, missing |-> {}, nulls |-> {}],
      [baseline |-> 0, baseline_text |-> TRUE, missing |-> {}, nulls |-> {}],
      [baseline |-> 0, baseline_text |-> FALSE, missing |-> {BaselineName}, nulls |-> {}],
      [baseline |-> 0, baseline_text |-> FALSE, missing |-> {}, nulls |-> {BaselineName}] }

\* A driver that is missing or null adds nothing to the score of its
\* category, so the extreme scores need every driver of the category.
ToolProfiles ==
    {EmptyProfile} \cup
    { p \in { [values |-> TRUE, baseline |-> b.baseline, baseline_text |-> b.baseline_text,
               missing |-> b.missing \cup m, nulls |-> b.nulls \cup n, score |-> sc,
               pos |-> MockPos] :
                 b \in BaselineInputs, m \in {{}, {"Max Temperature Forecast"}},
                 n \in {{}, {"Competitor Price Gap"}}, sc \in ScoreInputs } :
        /\ ("Max Temperature Forecast" \in p.missing => p.score["weather"] = 0)
        /\ ("Competitor Price Gap" \in p.nulls => p.score["competitor"] = 0) }

ThresholdInputs == {<< DefaultUpper, DefaultLower >>, << 50, -30 >>}

InitTools ==
    /\ \E p \in ToolProfiles : signals = [k \in SkuIds |-> IF k = 1 THEN p ELSE BaseProfile]
    /\ pc = "idle"
    /\ st = InputState("single", AUTO, "A", 1, None)
    /\ planned = << >>
    /\ approved = << >>
    /\ now = 0
    /\ g = NoRun
    /\ ui_decision = NoCall
    /\ \E th \in ThresholdInputs :
          rt = [sku |-> 1, upper_threshold |-> th[1], lower_threshold |-> th[2],
                boost |-> NoBoost, forecast |-> NoForecast, review |-> NoReview]

ApplyBoost ==
    /\ rt.boost = NoBoost
    /\ rt' = [rt EXCEPT !.boost = calculate_final_demand_boost(rt.sku)]
    /\ UNCHANGED << signals, ui_decision, pc, st, planned, approved, now, g >>

ApplyForecast ==
    /\ rt.forecast = NoForecast
    /\ rt' = [rt EXCEPT !.forecast = calculate_final_demand_forecast(rt.sku)]
    /\ UNCHANGED << signals, ui_decision, pc, st, planned, approved, now, g >>

ApplyReview ==
    /\ rt.review = NoReview
    /\ rt' = [rt EXCEPT !.review = critic_review_consensus_demand_boost(
                                       rt.sku, rt.upper_threshold, rt.lower_threshold)]
    /\ UNCHANGED << signals, ui_decision, pc, st, planned, approved, now, g >>

NextTools == ApplyBoost \/ ApplyForecast \/ ApplyReview

SpecTools == InitTools /\ [][NextTools]_vars

\* ------------------------------------ two category calculators on their own
NoResult == [boost_percent |-> NoneNum, net_score |-> NoneNum]

\* what a numeric driver can hold, nums being numbers of each of its bands
NumericInputs(nums) ==
    {Absent, Null, BoolValue(TRUE), BoolValue(FALSE), TextValue("abc")}
    \cup {NumValue(n) : n \in nums}

\* what a flag driver can hold
FlagInputs ==
    {Absent, Null, BoolValue(TRUE), BoolValue(FALSE), TextValue("yes"),
     TextValue("abc"), NumValue(1)}

SocialInputs ==
    { [n \in required_by_tool("fetch_social_signal_drivers") |->
          CASE n = "Ingredient Trend Velocity" -> a
            [] n = "Brand Sentiment Score" -> b
            [] n = "Viral Hashtag Volume" -> c
            [] n = "Influencer Mention Count" -> d] :
        a \in NumericInputs({-15, 0, 30}), b \in NumericInputs({40, 55, 80}),
        c \in NumericInputs({100, 300, 2000}), d \in NumericInputs({1, 3, 30}) }

TradePromoInputs ==
    { [n \in required_by_tool("fetch_trade_promo_drivers") |->
          CASE n = "On-Platform Discount Depth" -> a
            [] n = "Bundle Offer Active Status" -> b
            [] n = "Flash Sale Participation" -> c
            [] n = "Cart-Level Offer Conversion" -> d] :
        a \in NumericInputs({0, 3, 30}), b \in FlagInputs, c \in FlagInputs,
        d \in NumericInputs({0, 2, 10}) }

InitCalc ==
    /\ signals = [k \in SkuIds |-> BaseProfile]
    /\ pc = "idle"
    /\ st = InputState("single", AUTO, "A", 1, None)
    /\ planned = << >>
    /\ approved = << >>
    /\ now = 0
    /\ g = NoRun
    /\ ui_decision = NoCall
    /\ \/ \E v \in SocialInputs :
             rt = [category |-> "social", values |-> v, result |-> NoResult]
       \/ \E v \in TradePromoInputs :
             rt = [category |-> "trade_promo", values |-> v, result |-> NoResult]

ApplySocial ==
    /\ rt.category = "social"
    /\ rt.result = NoResult
    /\ rt' = [rt EXCEPT !.result = calculate_social_signal_demand_boost(rt.values)]
    /\ UNCHANGED << signals, ui_decision, pc, st, planned, approved, now, g >>

ApplyTradePromo ==
    /\ rt.category = "trade_promo"
    /\ rt.result = NoResult
    /\ rt' = [rt EXCEPT !.result = calculate_trade_promo_demand_boost(rt.values)]
    /\ UNCHANGED << signals, ui_decision, pc, st, planned, approved, now, g >>

NextCalc == ApplySocial \/ ApplyTradePromo

SpecCalc == InitCalc /\ [][NextCalc]_vars

\* --------------------------- one item evaluated on two signal sets
\* get_demand_driver_values for a context whose point-of-sale / open-order
\* drivers are pos: the mapping is empty iff it holds no driver at all
with_pos_signals(p, pos) ==
    [p EXCEPT !.pos = pos,
              !.values = (p.missing # RequiredNames \/ p.nulls # {} \/ pos # NoPos)]

PosInputs ==
    { NoPos, MockPos, << 98, NoneNum >> }

NoEval ==
    [actor_forecast |-> NoForecast, boost |-> NoBoost, critic_result |-> NoReview,
     route |-> None]

\* actor_node, critic_node and route_node for sku on its first attempt
first_attempt(sku, max_retries) ==
    LET critic_result ==
            critic_review_consensus_demand_boost(sku, DefaultUpper, DefaultLower)
    IN [actor_forecast |-> calculate_final_demand_forecast(sku),
        boost |-> calculate_final_demand_boost(sku),
        critic_result |-> critic_result,
        route |-> route_of(critic_result.decision, critic_result.rerun_recommendations,
                           max_retries, 1)]

InitPos ==
    /\ \E b \in Profiles \cup {EmptyProfile}, pos1 \in PosInputs, pos2 \in PosInputs :
          /\ pos1 # pos2
          /\ signals = [k \in SkuIds |->
                           IF k = 1 THEN with_pos_signals(b, pos1)
                           ELSE with_pos_signals(b, pos2)]
    /\ pc = "idle"
    /\ st = InputState("single", AUTO, "A", 1, None)
    /\ planned = << >>
    /\ approved = << >>
    /\ now = 0
    /\ g = NoRun
    /\ ui_decision = NoCall
    /\ \E max_retries \in 1..MaxRetries, upto \in 2..NumSkus :
          rt = [max_retries |-> max_retries, first |-> NoEval, second |-> NoEval,
                other |-> upto]

EvaluateFirst ==
    /\ rt.first = NoEval
    /\ rt' = [rt EXCEPT !.first = first_attempt(1, rt.max_retries)]
    /\ UNCHANGED << signals, ui_decision, pc, st, planned, approved, now, g >>

EvaluateSecond ==
    /\ rt.second = NoEval
    /\ rt' = [rt EXCEPT !.second = first_attempt(rt.other, rt.max_retries)]
    /\ UNCHANGED << signals, ui_decision, pc, st, planned, approved, now, g >>

NextPos == EvaluateFirst \/ EvaluateSecond

SpecPos == InitPos /\ [][NextPos]_vars

\* ------------------------------------------------ the two stores on their own
StoreKeys == {1, 2}

\* rows a store file can hold before a call: written by this program (both
\* boost fields; 0.30 / 30.0 and 0.01 / 1.0), or legacy rows without
\* total_boost_fraction whose percent field holds 0.30, 0.01, 1.0 or 1.5
BoostFields ==
    { [total_boost_fraction |-> 30, total_boost_percent |-> 3000],
      [total_boost_fraction |-> 1, total_boost_percent |-> 100],
      [total_boost_fraction |-> NoneNum, total_boost_percent |-> 30],
      [total_boost_fraction |-> NoneNum, total_boost_percent |-> 1],
      [total_boost_fraction |-> NoneNum, total_boost_percent |-> 100],
      [total_boost_fraction |-> NoneNum, total_boost_percent |-> 150] }

StoredPlannedRows ==
    { [sku_id |-> k, baseline_forecast |-> MockBaseline * 100,
       total_boost_fraction |-> b.total_boost_fraction,
       total_boost_percent |-> b.total_boost_percent,
       final_demand_forecast |-> 11960, critic_decision |-> "within_thresholds",
       took_approval_route |-> FALSE, approval_status |-> "not_required",
       created_at |-> 1, updated_at |-> u] :
        k \in StoreKeys, b \in BoostFields, u \in {1, 2} }

StoredApprovedRows ==
    { [sku_id |-> k, baseline_forecast |-> MockBaseline * 100,
       total_boost_fraction |-> b.total_boost_fraction,
       total_boost_percent |-> b.total_boost_percent,
       final_demand_forecast |-> 11960, approved_at |-> u] :
        k \in StoreKeys, b \in BoostFields, u \in {1, 2} }

\* the files of at most two rows
FilesOf(rows) == {<< >>} \cup {<< r >> : r \in rows} \cup {<< r, q >> : r \in rows, q \in rows}

\* the records store_result_node and finalize_node hand to the stores
UpsertInputs ==
    { [sku_id |-> k, baseline_forecast |-> MockBaseline * 100,
       total_boost_fraction |-> 60, total_boost_percent |-> 6000,
       final_demand_forecast |-> 14720, critic_decision |-> "route_to_human_approval",
       took_approval_route |-> TRUE, approval_status |-> a] :
        k \in StoreKeys, a \in {"pending", "approved"} }

SaveInputs ==
    { [sku_id |-> k, baseline_forecast |-> MockBaseline * 100,
       total_boost_fraction |-> f, total_boost_percent |-> 100 * f,
       final_demand_forecast |-> MockBaseline * (100 + f)] :
        k \in StoreKeys, f \in {10, 60} }

NoLoad == << [sku_id |-> NoSku] >>

InitStore ==
    /\ signals = [k \in SkuIds |-> BaseProfile]
    /\ pc = "idle"
    /\ st = InputState("single", AUTO, "A", 1, None)
    /\ now = 3
    /\ g = NoRun
    /\ ui_decision = NoCall
    /\ \/ /\ planned \in FilesOf(StoredPlannedRows)
          /\ approved = << >>
          /\ rt = [store |-> "planned", calls |-> << >>, loaded |-> NoLoad]
       \/ /\ planned = << >>
          /\ approved \in FilesOf(StoredApprovedRows)
          /\ rt = [store |-> "approved", calls |-> << >>, loaded |-> NoLoad]

StoreUpsert ==
    /\ rt.store = "planned"
    /\ Len(rt.calls) < MaxCalls
    /\ \E record \in UpsertInputs :
          \E out \in {upsert_consensus_demand(planned, record, now)} :
             /\ planned' = out.file
             /\ now' = out.now
             /\ rt' = [rt EXCEPT !.calls = Append(@, [op |-> "upsert", sku_id |-> record.sku_id,
                                                      record |-> record, found |-> TRUE]),
                                 !.loaded = NoLoad]
    /\ UNCHANGED << signals, ui_decision, pc, st, approved, g >>

StoreSetStatus ==
    /\ rt.store = "planned"
    /\ Len(rt.calls) < MaxCalls
    /\ \E k \in StoreKeys, approval_status \in {"approved", "rejected"} :
          \E out \in {set_consensus_approval_status(planned, k, approval_status, now)} :
             /\ planned' = out.file
             /\ now' = out.now
             /\ rt' = [rt EXCEPT !.calls = Append(@, [op |-> "set_status", sku_id |-> k,
                                                      record |-> approval_status,
                                                      found |-> out.found]),
                                 !.loaded = NoLoad]
    /\ UNCHANGED << signals, ui_decision, pc, st, approved, g >>

StoreSaveApproved ==
    /\ rt.store = "approved"
    /\ Len(rt.calls) < MaxCalls
    /\ \E record \in SaveInputs :
          \E out \in {save_approved_consensus_demand(approved, record, now)} :
             /\ approved' = out.file
             /\ now' = out.now
             /\ rt' = [rt EXCEPT !.calls = Append(@, [op |-> "save", sku_id |-> record.sku_id,
                                                      record |-> record, found |-> TRUE]),
                                 !.loaded = NoLoad]
    /\ UNCHANGED << signals, ui_decision, pc, st, planned, g >>

StoreLoadPlanned ==
    /\ rt.store = "planned"
    /\ rt.loaded = NoLoad
    /\ rt' = [rt EXCEPT !.loaded = load_consensus_demands(planned)]
    /\ UNCHANGED << signals, ui_decision, pc, st, planned, approved, now, g >>

StoreLoadApproved ==
    /\ rt.store = "approved"
    /\ rt.loaded = NoLoad
    /\ rt' = [rt EXCEPT !.loaded = load_approved_consensus_demands(approved)]
    /\ UNCHANGED << signals, ui_decision, pc, st, planned, approved, now, g >>

NextStore ==
    \/ StoreUpsert
    \/ StoreSetStatus
    \/ StoreSaveApproved
    \/ StoreLoadPlanned
    \/ StoreLoadApproved

SpecStore == InitStore /\ [][NextStore]_vars

\* --------------------------------- two runs writing to one store file
\* upsert_consensus_demand and save_approved_consensus_demand read the whole
\* file, change one row in memory and write the whole file back; nothing
\* locks the file between the read and the write.  Run i of two holds the
\* record it is to store, its position (idle, loaded, done) and the file
\* contents it read.
ConcRuns == {1, 2}

IdleRun(record) == [record |-> record, phase |-> "idle", seen |-> << >>]

InitConc ==
    /\ signals = [k \in SkuIds |-> BaseProfile]
    /\ pc = "idle"
    /\ st = InputState("single", AUTO, "A", 1, None)
    /\ now = 3
    /\ g = NoRun
    /\ ui_decision = NoCall
    /\ \/ /\ planned \in {f \in FilesOf(StoredPlannedRows) : Len(f) <= 1}
          /\ approved = << >>
          /\ \E r1 \in UpsertInputs, r2 \in UpsertInputs :
                rt = [store |-> "planned", run |-> << IdleRun(r1), IdleRun(r2) >>]
       \/ /\ planned = << >>
          /\ approved \in {f \in FilesOf(StoredApprovedRows) : Len(f) <= 1}
          /\ \E r1 \in SaveInputs, r2 \in SaveInputs :
                rt = [store |-> "approved", run |-> << IdleRun(r1), IdleRun(r2) >>]

\* rows = load_consensus_demands() / load_approved_consensus_demands(): the
\* run reads the file as it is now
ConcRead(i) ==
    /\ rt.run[i].phase = "idle"
    /\ rt' = [rt EXCEPT !.run[i].phase = "loaded",
                        !.run[i].seen = IF rt.store = "planned" THEN planned ELSE approved]
    /\ UNCHANGED << signals, ui_decision, pc, st, planned, approved, now, g >>

\* the rest of upsert_consensus_demand: the rows computed from the contents
\* the run read replace the file
ConcWritePlanned(i) ==
    /\ rt.store = "planned"
    /\ rt.run[i].phase = "loaded"
    /\ \E out \in {upsert_consensus_demand(rt.run[i].seen, rt.run[i].record, now)} :
          /\ planned' = out.file
          /\ now' = out.now
    /\ rt' = [rt EXCEPT !.run[i].phase = "done"]
    /\ UNCHANGED << signals, ui_decision, pc, st, approved, g >>

\* the rest of save_approved_consensus_demand
ConcWriteApproved(i) ==
    /\ rt.store = "approved"
    /\ rt.run[i].phase = "loaded"
    /\ \E out \in {save_approved_consensus_demand(rt.run[i].seen, rt.run[i].record, now)} :
          /\ approved' = out.file
          /\ now' = out.now
    /\ rt' = [rt EXCEPT !.run[i].phase = "done"]
    /\ UNCHANGED << signals, ui_decision, pc, st, planned, g >>

NextConc ==
    \/ \E i \in ConcRuns : ConcRead(i)
    \/ \E i \in ConcRuns : ConcWritePlanned(i)
    \/ \E i \in ConcRuns : ConcWriteApproved(i)

SpecConc == InitConc /\ [][NextConc]_vars

\* ----------------------------------- a run whose planned-store write fails
\* _maybe_execute_pending_run: the app replaces its FlowRun by a running one,
\* runs the graph through _run_graph_with_events (astream_events, then
\* ainvoke on the same input) and keeps the returned state as last_output;
\* an exception of the graph is caught and its text kept as last_error.
\* upsert_consensus_demand ends with an unguarded write_text, so the write
\* for the context key fail_key (NoSku: none) raises an OSError out of
\* store_result_node.  rt holds fail_key, the input state, the pass of
\* _run_graph_with_events and the FlowRun.
NoOutput == [present |-> FALSE, results |-> << >>]
FlowRun(status) == [status |-> status, last_error |-> None, last_output |-> NoOutput]

\* str(e) of the OSError raised by Path.write_text
WriteErrorText == [errno |-> "OSError", filename |-> "consensus_demand_store.json"]

InitSink ==
    /\ signals = [k \in SkuIds |-> BaseProfile]
    /\ pc = "idle"
    /\ st = InputState("single", AUTO, "A", 1, None)
    /\ planned = << >>
    /\ approved = << >>
    /\ now = 0
    /\ g = NoRun
    /\ ui_decision = NoCall
    /\ \E k \in SkuIds \cup {NoSku} :
          rt = [fail_key |-> k, input |-> st, pass |-> 0, run |-> FlowRun("idle")]

SinkStart ==
    /\ pc = "idle"
    /\ rt.pass = 0
    /\ \E scope \in {"single", "all_relevant"}, sku \in SkuIds \cup {AUTO},
          max_retries \in 1..MaxRetries, sig \in [SkuIds -> Profiles] :
          /\ (scope = "all_relevant" => sku = AUTO)
          /\ \A k \in SkuIds \ Evaluated(scope, sku, "A") : sig[k] = BaseProfile
          /\ signals' = sig
          /\ st' = InputState(scope, sku, "A", max_retries, None)
    /\ pc' = "parse_request"
    /\ g' = [g EXCEPT !.kind = "fresh", !.prev_status = None, !.base = 0,
                      !.nActor = 0, !.nStore = 0, !.nApproved = 0]
    /\ rt' = [rt EXCEPT !.input = st', !.pass = 1, !.run = FlowRun("running")]
    /\ UNCHANGED << planned, approved, now, ui_decision >>

\* out = await g.ainvoke(state) after the astream_events pass ended
SinkSecondPass ==
    /\ pc = "END"
    /\ rt.pass = 1
    /\ st' = rt.input
    /\ pc' = "parse_request"
    /\ g' = [g EXCEPT !.kind = "fresh", !.prev_status = None, !.base = 0,
                      !.nActor = 0, !.nStore = 0, !.nApproved = 0]
    /\ rt' = [rt EXCEPT !.pass = 2]
    /\ UNCHANGED << signals, planned, approved, now, ui_decision >>

\* run.status = "done"; run.last_output = out
SinkReturn ==
    /\ pc = "END"
    /\ rt.pass = 2
    /\ pc' = "done"
    /\ rt' = [rt EXCEPT !.run = [status |-> "done", last_error |-> None,
                                 last_output |-> [present |-> TRUE, results |-> st.results]]]
    /\ UNCHANGED << signals, st, planned, approved, now, g, ui_decision >>

SinkStoreOk ==
    /\ st.sku_id # rt.fail_key
    /\ StoreResult

\* write_text raises: the file is as it was (it could not be opened) or empty
\* (it was truncated before the write failed); the graph's state is dropped
\* and the except branch records the error
SinkStoreFail ==
    /\ pc = "store_result"
    /\ st.sku_id = rt.fail_key
    /\ planned' \in {planned, << >>}
    /\ pc' = "error"
    /\ rt' = [rt EXCEPT !.run = [status |-> "error", last_error |-> WriteErrorText,
                                 last_output |-> NoOutput]]
    /\ UNCHANGED << signals, st, approved, now, g, ui_decision >>

NextSink ==
    \/ SinkStart
    \/ ParseRequest
    \/ BuildSkuQueue
    \/ SetCurrentSku
    \/ Actor
    \/ Critic
    \/ Route
    \/ BumpAttempt
    \/ HumanApproval
    \/ Finalize
    \/ SinkStoreOk
    \/ SinkStoreFail
    \/ NextSkuOrEnd
    \/ BumpSkuIndex
    \/ SinkSecondPass
    \/ SinkReturn

SpecSink == InitSink /\ [][NextSink]_vars

\* ------------------------------------------- the Actor and its narrator
\* DemandActorAgent.on_run_request computes the boost and the forecast, then
\* asks the narrator (self._llm_client) for the reasoning text.  The narrator
\* is absent (no client configured), raises, returns a text or returns the
\* empty string (GeminiReasoningClient.generate with no text in the reply).
\* A text is modelled by its author and by the numbers it states.
NarratorOutcomes == {"absent", "raises", "text", "empty"}

\* _template_reasoning: baseline, total boost as a whole percent, forecast
_template_reasoning(boost, final_forecast) ==
    [by |-> "template",
     baseline |-> final_forecast.baseline_forecast,
     total_pct |-> boost.total_boost_percent,
     final |-> final_forecast.final_demand_forecast,
     empty |-> FALSE]

\* the text returned by self._llm_client.generate
generated_text(narrator) ==
    [by |-> "narrator", baseline |-> NoneNum, total_pct |-> NoneNum, final |-> NoneNum,
     empty |-> (narrator = "empty")]

NoText == [by |-> None, baseline |-> NoneNum, total_pct |-> NoneNum, final |-> NoneNum,
           empty |-> TRUE]

\* on_run_request letting the narrator's exception leave the handler
on_run_request_uncaught(sku, attempt, narrator) ==
    LET final_boost == calculate_final_demand_boost(sku)
        final_forecast == calculate_final_demand_forecast(sku)
    IN IF narrator = "raises"
       THEN [aborted |-> TRUE, attempt |-> attempt, final_boost |-> final_boost,
             final_forecast |-> final_forecast, reasoning |-> NoText,
             reasoning_source |-> None]
       ELSE [aborted |-> FALSE, attempt |-> attempt, final_boost |-> final_boost,
             final_forecast |-> final_forecast,
             reasoning |-> IF narrator = "absent"
                           THEN _template_reasoning(final_boost, final_forecast)
                           ELSE generated_text(narrator),
             reasoning_source |-> IF narrator = "absent" THEN "template" ELSE "llm"]

\* on_run_request: the ActorRunResult; aborted tells whether an exception left
\* the handler
on_run_request(sku, attempt, narrator) ==
    LET final_boost == calculate_final_demand_boost(sku)
        final_forecast == calculate_final_demand_forecast(sku)
    IN IF narrator = "absent"
       THEN [aborted |-> FALSE, attempt |-> attempt, final_boost |-> final_boost,
             final_forecast |-> final_forecast,
             reasoning |-> _template_reasoning(final_boost, final_forecast),
             reasoning_source |-> "template"]
       ELSE IF narrator = "raises"
       THEN [aborted |-> FALSE, attempt |-> attempt, final_boost |-> final_boost,
             final_forecast |-> final_forecast,
             reasoning |-> _template_reasoning(final_boost, final_forecast),
             reasoning_source |-> "template"]
       ELSE [aborted |-> FALSE, attempt |-> attempt, final_boost |-> final_boost,
             final_forecast |-> final_forecast,
             reasoning |-> generated_text(narrator),
             reasoning_source |-> "llm"]

NoActorResult == [aborted |-> FALSE, attempt |-> 0]

\* one ActorRunRequest handled twice: with a narrator that returns a text
\* (narrated) and with a narrator of any outcome (result)
InitNarr ==
    /\ \E p \in Profiles : signals = [k \in SkuIds |-> IF k = 1 THEN p ELSE BaseProfile]
    /\ pc = "idle"
    /\ st = InputState("single", AUTO, "A", 1, None)
    /\ planned = << >>
    /\ approved = << >>
    /\ now = 0
    /\ g = NoRun
    /\ ui_decision = NoCall
    /\ \E sku \in {1, UnknownSku}, attempt \in 1..MaxAttemptIn :
          rt = [sku |-> sku, attempt |-> attempt, narrator |-> None,
                narrated |-> NoActorResult, result |-> NoActorResult]

RunNarrated ==
    /\ rt.narrated = NoActorResult
    /\ rt' = [rt EXCEPT !.narrated = on_run_request(rt.sku, rt.attempt, "text")]
    /\ UNCHANGED << signals, ui_decision, pc, st, planned, approved, now, g >>

RunActor ==
    /\ rt.result = NoActorResult
    /\ \E narrator \in NarratorOutcomes :
          rt' = [rt EXCEPT !.narrator = narrator,
                           !.result = on_run_request(rt.sku, rt.attempt, narrator)]
    /\ UNCHANGED << signals, ui_decision, pc, st, planned, approved, now, g >>

NextNarr ==
    \/ RunNarrated
    \/ RunActor

SpecNarr == InitNarr /\ [][NextNarr]_vars

\* ================================================================ claims
Settled == {"approved", "rejected"}
IsApprove(d) == strip_lower(d) \in ApproveSynonyms
IsReject(d) == strip_lower(d) \in RejectSynonyms

\* C1: for every item, whatever max_retries is and although the Critic asks
\* for a rerun on every attempt, the Actor is invoked at most twice.
C1_ActorAtMostTwice == g.nActor <= 2

\* the rerun was taken, the Critic asks again on attempt 2 with
\* recommendations and max_retries > 2, and the item goes to finalize
C1_Witness ==
    /\ pc = "finalize"
    /\ g.nActor = 2
    /\ st.attempt = 2
    /\ st.max_retries > 2
    /\ st.critic_result.decision = "ask_actor_rerun"
    /\ Len(st.critic_result.rerun_recommendations) > 0

\* C2: ROUTE takes the rerun branch iff the decision is ask_actor_rerun and
\* attempt = 1 and max_retries >= 2 and rerun_recommendations is non-empty;
\* any other ask_actor_rerun goes to FINALIZE, route_to_human_approval goes to
\* HUMAN_APPROVAL and every other decision goes to FINALIZE.
C2_RouteTable ==
    rt.route # None =>
        /\ (rt.next = "bump_attempt") <=>
              (/\ rt.decision = "ask_actor_rerun"
               /\ rt.attempt = 1
               /\ rt.max_retries >= 2
               /\ rt.rerun_recommendations # << >>)
        /\ (rt.decision = "ask_actor_rerun" /\ rt.next # "bump_attempt" => rt.next = "finalize")
        /\ (rt.decision = "route_to_human_approval" => rt.next = "human_approval")
        /\ (rt.decision \notin {"ask_actor_rerun", "route_to_human_approval"}
               => rt.next = "finalize")

C2_Witness ==
    /\ rt.next = "bump_attempt"
    /\ rt.decision = "ask_actor_rerun"
    /\ rt.attempt = 1
    /\ rt.max_retries = 2

\* a result i that was pending and is approved or rejected after the step
SnapshotSettles(i) ==
    /\ i \in DOMAIN st.results
    /\ i \in DOMAIN st'.results
    /\ st.results[i].approval_status = "pending"
    /\ st'.results[i].approval_status \in Settled

C4_SettledItemUnchanged ==
    [][ /\ (/\ pc = "human_approval"
            /\ g.kind = "resume"
            /\ Len(st.sku_queue) = 1
            /\ g.prev_status \in Settled
            /\ st.approval_status = g.prev_status)
              => (/\ st'.approval_status = st.approval_status
                  /\ st'.finalized = st.finalized)
        /\ \A i \in DOMAIN st.results :
              (pc = "END" /\ pc' = "END" /\ st.results[i].approval_status \in Settled)
                 => st'.results[i] = st.results[i] ]_vars

ApprovedRowsFor(sku) == {i \in DOMAIN approved : approved[i].sku_id = sku}
PlannedRowsFor(sku) == {i \in DOMAIN planned : planned[i].sku_id = sku}

\* a run over one item was re-entered with the state it returned, that state
\* was pending, and the re-entry has just ended
ResumedPendingItem ==
    /\ pc = "END"
    /\ g.kind = "resume"
    /\ g.prev_status = "pending"
    /\ st.scope = "single"
    /\ Len(st.sku_queue) = 1

\* C6: re-entering a pending single-item run with approve ends approved and
\* finalized, with exactly one approved record for the key and the planned
\* record of the key approved; with reject it ends rejected and the re-entry
\* writes no approved record.
C6_ResumePending ==
    ResumedPendingItem =>
        /\ IsApprove(st.human_decision) =>
              /\ st.approval_status = "approved"
              /\ st.finalized = TRUE
              /\ Cardinality(ApprovedRowsFor(st.sku_id)) = 1
              /\ Cardinality(PlannedRowsFor(st.sku_id)) = 1
              /\ \A i \in PlannedRowsFor(st.sku_id) : planned[i].approval_status = "approved"
        /\ IsReject(st.human_decision) =>
              /\ st.approval_status = "rejected"
              /\ g.nApproved = 0

C6_Witness ==
    /\ ResumedPendingItem
    /\ IsApprove(st.human_decision)
    /\ st.approval_status = "approved"
    /\ Len(st.results) = 2
    /\ st.results[1].approval_status = "pending"

\* C7: FINALIZE sets finalized and writes an approved record iff the status
\* is approved; no other node writes one, and a rejected or pending item goes
\* from HUMAN_APPROVAL straight to STORE_RESULT.
C7_FinalizeWritesIffApproved ==
    [][ /\ pc = "finalize" =>
              /\ st'.finalized = TRUE
              /\ (approved' # approved) <=> (st'.approval_status = "approved")
              /\ (st'.approval_status = "approved" =>
                     \E i \in DOMAIN approved' :
                        /\ approved'[i].sku_id = st.sku_id
                        /\ approved'[i].approved_at = now)
        /\ (pc \notin {"finalize", "END", "idle"} => approved' = approved)
        /\ (pc = "human_approval" /\ st'.approval_status \in {"rejected", "pending"}
               => pc' = "store_result") ]_vars

C7_Witness ==
    /\ pc = "store_result"
    /\ st.finalized = TRUE
    /\ st.approval_status = "approved"
    /\ g.nApproved = 1
    /\ \E i \in DOMAIN approved : approved[i].sku_id = st.sku_id /\ approved[i].approved_at = now - 1

\* C8: on every path STORE_RESULT runs exactly once for an item: one snapshot
\* is appended and one planned record is upserted for its key, whatever the
\* approval outcome.
C8_StoreResultOnce ==
    /\ pc \in {"actor", "critic", "route", "bump_attempt", "human_approval",
               "finalize", "store_result"} => g.nStore = 0
    /\ pc \in {"next_sku_or_end", "bump_sku_index"} =>
          /\ g.nStore = 1
          /\ Len(st.results) = g.base + st.current_sku_index + 1
          /\ st.results[Len(st.results)].sku_id = st.sku_id
          /\ Cardinality(PlannedRowsFor(st.sku_id)) = 1
          /\ \A i \in PlannedRowsFor(st.sku_id) :
                /\ planned[i].updated_at = now - 1
                /\ planned[i].approval_status = st.approval_status
    /\ (pc = "END" /\ g.kind # "none") =>
          /\ g.nStore = 1
          /\ Len(st.sku_queue) > 0 => Len(st.results) = g.base + Len(st.sku_queue)

C8_Witness ==
    /\ pc = "next_sku_or_end"
    /\ g.nStore = 1
    /\ st.approval_status = "rejected"
    /\ st.finalized = FALSE
    /\ st.current_sku_index = 1

\* the results appended by this invocation are those of the first n items of
\* the queue, in queue order
ArchivedInOrder(n) ==
    /\ Len(st.results) = g.base + n
    /\ \A j \in 1..n : st.results[g.base + j].sku_id = st.sku_queue[j]

\* C9: current_sku_index starts at 0 and only grows by 1, item i is archived
\* before the Actor runs for item i+1, and results is in queue order.
C9_SequentialQueue ==
    /\ [](/\ pc = "actor" => ArchivedInOrder(st.current_sku_index)
          /\ (pc = "END" /\ g.kind # "none" /\ Len(st.sku_queue) > 0)
                => ArchivedInOrder(Len(st.sku_queue)))
    /\ [][ /\ pc = "build_sku_queue" => st'.current_sku_index = 0
           /\ st'.current_sku_index # st.current_sku_index =>
                 \/ pc = "build_sku_queue"
                 \/ (pc = "bump_sku_index"
                     /\ st'.current_sku_index = st.current_sku_index + 1) ]_vars

C9_Witness ==
    /\ pc = "actor"
    /\ st.current_sku_index = 1
    /\ Len(st.sku_queue) > 1
    /\ ArchivedInOrder(1)

\* an item other than the last one of the queue was just archived as pending
PendingMidQueue ==
    /\ pc = "next_sku_or_end"
    /\ st.approval_status = "pending"
    /\ st.results[Len(st.results)].approval_status = "pending"
    /\ st.current_sku_index + 1 < Len(st.sku_queue)

C11_QueueAsRequested ==
    pc \notin {"idle", "parse_request", "build_sku_queue"} =>
        IF st.scope = "all_relevant"
        THEN /\ {st.sku_queue[i] : i \in DOMAIN st.sku_queue}
                    = (IF st.abc_class = "A" THEN SkuIds ELSE {})
             /\ Len(st.sku_queue) = Cardinality({st.sku_queue[i] : i \in DOMAIN st.sku_queue})
        ELSE Len(st.sku_queue) = 1

\* C16 as stated: the signed step maps every net score by nine bands, the
\* last two being "below 1.20 gives 0.40" and "otherwise 0.60".
C16_NineBands ==
    rt.signed # NoneNum =>
        /\ (rt.score <= -100 => rt.signed = -30)
        /\ (-100 < rt.score /\ rt.score <= -70 => rt.signed = -20)
        /\ (-70 < rt.score /\ rt.score <= -35 => rt.signed = -10)
        /\ (-35 < rt.score /\ rt.score < 35 => rt.signed = 0)
        /\ (35 <= rt.score /\ rt.score < 60 => rt.signed = 10)
        /\ (60 <= rt.score /\ rt.score < 80 => rt.signed = 20)
        /\ (80 <= rt.score /\ rt.score < 100 => rt.signed = 30)
        /\ (100 <= rt.score /\ rt.score < 120 => rt.signed = 40)
        /\ (120 <= rt.score => rt.signed = 60)

\* C16 amended: the signed step maps every net score by ten bands; a score
\* from 1.20 up to but not including 1.40 gives 0.50, and only a score of
\* 1.40 or more gives 0.60.
C16_TenBands ==
    rt.signed # NoneNum =>
        /\ (rt.score <= -100 => rt.signed = -30)
        /\ (-100 < rt.score /\ rt.score <= -70 => rt.signed = -20)
        /\ (-70 < rt.score /\ rt.score <= -35 => rt.signed = -10)
        /\ (-35 < rt.score /\ rt.score < 35 => rt.signed = 0)
        /\ (35 <= rt.score /\ rt.score < 60 => rt.signed = 10)
        /\ (60 <= rt.score /\ rt.score < 80 => rt.signed = 20)
        /\ (80 <= rt.score /\ rt.score < 100 => rt.signed = 30)
        /\ (100 <= rt.score /\ rt.score < 120 => rt.signed = 40)
        /\ (120 <= rt.score /\ rt.score < 140 => rt.signed = 50)
        /\ (140 <= rt.score => rt.signed = 60)

\* a score in the band between 1.20 and 1.40 has been mapped
C16_Witness == rt.score >= 120 /\ rt.score < 140 /\ rt.signed = 50

\* C17: the competitor step maps every net score by its seven bands, so the
\* competitor boost lies between -0.30 and 0.30.
C17_CompetitorBands ==
    rt.competitor # NoneNum =>
        /\ (rt.score <= -80 => rt.competitor = -30)
        /\ (-80 < rt.score /\ rt.score <= -50 => rt.competitor = -20)
        /\ (-50 < rt.score /\ rt.score <= -20 => rt.competitor = -10)
        /\ (-20 < rt.score /\ rt.score < 20 => rt.competitor = 0)
        /\ (20 <= rt.score /\ rt.score < 50 => rt.competitor = 10)
        /\ (50 <= rt.score /\ rt.score < 80 => rt.competitor = 20)
        /\ (80 <= rt.score => rt.competitor = 30)
        /\ -30 <= rt.competitor /\ rt.competitor <= 30

\* a score above every band edge of the signed step has been mapped
C17_Witness == rt.score >= 140 /\ rt.competitor = 30

SixCategoryTools ==
    {"fetch_social_signal_drivers", "fetch_marketing_spend_drivers",
     "fetch_trade_promo_drivers", "fetch_digital_shelf_drivers",
     "fetch_weather_environment_drivers", "fetch_competitor_data_drivers"}

SevenTools == SixCategoryTools \cup {"fetch_consensus_demand_driver"}

\* for a signal set that holds values: every tool of T has a health, ok iff
\* none of its required signals is missing and none is null, otherwise
\* incomplete and listed for rerun; nothing outside T has an entry
HealthOver(T) ==
    (rt.review # NoReview /\ signals[rt.sku].values) =>
        LET p == signals[rt.sku]
            recs == {rt.review.rerun_recommendations[i] :
                        i \in DOMAIN rt.review.rerun_recommendations}
        IN /\ DOMAIN rt.review.tool_health = T
           /\ recs \subseteq T
           /\ \A t \in T :
                 /\ rt.review.tool_health[t] \in {"ok", "incomplete"}
                 /\ rt.review.tool_health[t] = "ok"
                       <=> required_by_tool(t) \cap (p.missing \cup p.nulls) = {}
                 /\ rt.review.tool_health[t] = "incomplete" <=> t \in recs

EmptyReviewed(n) ==
    (pc = "route" /\ ~_get_values(st.sku_id).values) =>
        /\ Cardinality({t \in DOMAIN st.critic_result.tool_health :
                 st.critic_result.tool_health[t] = "missing_context_data"}) = n
        /\ Cardinality(DOMAIN st.critic_result.tool_health) = n
        /\ Len(st.critic_result.rerun_recommendations) = n
        /\ st.critic_result.decision = "ask_actor_rerun"

\* after such a review the rerun is taken on attempt 1 when max_retries >= 2
\* and the item is finalized on attempt 2
EmptyRouted ==
    (pc = "route" /\ ~_get_values(st.sku_id).values) =>
        /\ (st.attempt = 1 /\ st.max_retries >= 2 => pc' = "bump_attempt")
        /\ (st.attempt = 2 => pc' = "finalize")

SumOfSix ==
    rt.boost.breakdown["social"] + rt.boost.breakdown["marketing"]
    + rt.boost.breakdown["trade_promo"] + rt.boost.breakdown["digital_shelf"]
    + rt.boost.breakdown["weather"] + rt.boost.breakdown["competitor"]

\* C15: for every signal set the raw total is the unweighted sum of the six
\* category boosts and the clamped total is the raw total saturated into
\* [-0.30, 0.60].
C15_ClampedTotal ==
    rt.boost # NoBoost =>
        /\ rt.boost.raw_total_boost_percent = SumOfSix
        /\ rt.boost.total_boost_percent = Max({-30, Min({60, SumOfSix})})
        /\ -30 <= rt.boost.total_boost_percent
        /\ rt.boost.total_boost_percent <= 60

\* a raw total below the lower cap was saturated to the cap
C15_Witness ==
    /\ rt.boost # NoBoost
    /\ rt.boost.raw_total_boost_percent < -30
    /\ rt.boost.total_boost_percent = -30

\* the example: baseline 92, boosts 0.10 for social, marketing, trade promo
\* and digital shelf, 0 for weather and competitor, aggregated and composed
ExampleComputed ==
    /\ rt.boost # NoBoost
    /\ rt.forecast # NoForecast
    /\ rt.forecast.baseline_forecast = 9200
    /\ rt.boost.breakdown =
          [c \in CategorySet |-> IF c \in {"weather", "competitor"} THEN 0 ELSE 10]

\* C18 as stated: the example yields raw total 0.30, clamped total 0.30 and
\* final forecast 119.6.
C18_ExampleAsStated ==
    ExampleComputed =>
        /\ rt.boost.raw_total_boost_percent = 30
        /\ rt.boost.total_boost_percent = 30
        /\ rt.forecast.final_demand_forecast = 11960

\* C18 amended: the example yields raw total 0.40, clamped total 0.40 and
\* final forecast 128.8.
C18_ExampleSumsToForty ==
    ExampleComputed =>
        /\ rt.boost.raw_total_boost_percent = 40
        /\ rt.boost.total_boost_percent = 40
        /\ rt.forecast.final_demand_forecast = 12880

C18_Witness == ExampleComputed /\ rt.forecast.total_boost_percent = 40

RerunRepeats ==
    /\ (pc = "actor" /\ st.attempt = 2 => st'.actor_forecast = st.actor_forecast)
    /\ (pc = "critic" /\ st.attempt = 2 => st'.critic_result = st.critic_result)

FlagNames == {"Bundle Offer Active Status", "Flash Sale Participation"}

\* a flag that is true: the boolean true, or text that affirms
IsTrueFlag(v) == v = BoolValue(TRUE) \/ v = TextValue("yes")

\* the mapping with every value that is to contribute nothing taken out: a
\* numeric driver that is null, a boolean or text, and a flag that is not true
WithoutUnusable(values) ==
    [n \in DOMAIN values |->
        IF n \in FlagNames
        THEN (IF IsTrueFlag(values[n]) THEN BoolValue(TRUE) ELSE Absent)
        ELSE (IF values[n].kind = "number" THEN values[n] ELSE Absent)]

ResultOf(category, values) ==
    IF category = "social" THEN calculate_social_signal_demand_boost(values)
    ELSE calculate_trade_promo_demand_boost(values)

\* C21: a driver that is missing, null, a boolean or text that is no number
\* adds nothing to the net score of its category, a flag adds its increment
\* only when it is true, and a category with every driver absent has net
\* score 0 and boost 0.
C21_UnusableContributesNothing ==
    rt.result # NoResult =>
        /\ rt.result = ResultOf(rt.category, WithoutUnusable(rt.values))
        /\ ((\A n \in DOMAIN rt.values : rt.values[n] = Absent) =>
               rt.result = [boost_percent |-> 0, net_score |-> 0])

\* C22 as stated: two signal sets that differ only in their point-of-sale /
\* open-order drivers give the same category boosts, aggregate boost,
\* forecast, review result and route.
C22_PosNoInfluence ==
    (rt.first # NoEval /\ rt.second # NoEval) => rt.first = rt.second

\* C22 amended: two such signal sets give the same category boosts, aggregate
\* boost, forecast, review decision, rerun recommendations and route, and the
\* same review result altogether unless one of the two holds no driver at
\* all (then its tool health reads missing_context_data where the other
\* reads incomplete).
C22_PosOnlyInHealthOfEmpty ==
    (rt.first # NoEval /\ rt.second # NoEval) =>
        /\ rt.first.boost = rt.second.boost
        /\ rt.first.actor_forecast = rt.second.actor_forecast
        /\ rt.first.route = rt.second.route
        /\ rt.first.critic_result.decision = rt.second.critic_result.decision
        /\ rt.first.critic_result.rerun_recommendations
              = rt.second.critic_result.rerun_recommendations
        /\ rt.first.critic_result.total_boost_percent
              = rt.second.critic_result.total_boost_percent
        /\ rt.first.critic_result.outside_thresholds
              = rt.second.critic_result.outside_thresholds
        /\ ((signals[1].values /\ signals[rt.other].values) => rt.first = rt.second)
        /\ (signals[1].values # signals[rt.other].values =>
              \A t \in SevenTools :
                 {rt.first.critic_result.tool_health[t],
                  rt.second.critic_result.tool_health[t]}
                     = {"missing_context_data", "incomplete"})

\* a signal set above the thresholds was evaluated with and without its
\* point-of-sale drivers
C22_Witness ==
    /\ rt.first # NoEval
    /\ rt.second # NoEval
    /\ signals[1].pos = NoPos
    /\ signals[rt.other].pos = MockPos
    /\ rt.first.route = "human_approval"
    /\ rt.second.route = "human_approval"

\* the file and the timestamp field of the store under test
FileUnderTest == IF rt.store = "planned" THEN planned ELSE approved
StampField == IF rt.store = "planned" THEN "updated_at" ELSE "approved_at"

\* the indexes of the rows of a file that have key k
RowsOf(file, k) == {i \in DOMAIN file : file[i].sku_id = k}

LastCall == rt.calls[Len(rt.calls)]

\* C23: after two upserts with the same key and the same payload, whatever
\* the store held before, exactly one record exists for that key and it
\* carries the payload.
C23_UpsertIdempotent ==
    (/\ rt.store = "planned"
     /\ Len(rt.calls) >= 2
     /\ LastCall.op = "upsert"
     /\ rt.calls[Len(rt.calls) - 1].op = "upsert"
     /\ rt.calls[Len(rt.calls) - 1] = LastCall) =>
        /\ Cardinality(RowsOf(planned, LastCall.sku_id)) = 1
        /\ \A i \in RowsOf(planned, LastCall.sku_id) :
              \A f \in DOMAIN LastCall.record : planned[i][f] = LastCall.record[f]
        /\ Len(load_consensus_demands(planned)) = Len(planned)

\* the same record was upserted twice into a store that also holds a record
\* of another key
C23_Witness ==
    /\ rt.store = "planned"
    /\ Len(rt.calls) = 2
    /\ rt.calls[1].op = "upsert"
    /\ rt.calls[2].op = "upsert"
    /\ rt.calls[1] = rt.calls[2]
    /\ Len(planned) = 2

\* one call on the planned store: a key that had a record keeps its created
\* timestamp, a key first upserted gets the time of the call, and the record
\* of the key the call was on gets a new updated timestamp
CreatedKeptByCall ==
    (rt.store = "planned" /\ rt'.calls # rt.calls) =>
        LET before == load_consensus_demands(planned)
            after == load_consensus_demands(planned')
            call == rt'.calls[Len(rt'.calls)]
        IN \A j \in DOMAIN after :
              /\ \A i \in DOMAIN before :
                    before[i].sku_id = after[j].sku_id =>
                        after[j].created_at = before[i].created_at
              /\ (after[j].sku_id = call.sku_id =>
                    /\ after[j].updated_at >= now
                    /\ after[j].updated_at < now'
                    /\ \A i \in DOMAIN before :
                          before[i].sku_id = call.sku_id =>
                              after[j].updated_at > before[i].updated_at
                    /\ (RowsOf(before, call.sku_id) = {} => after[j].created_at = now))

\* C24: across any sequence of upsert and set-status calls on a context key
\* the record's created timestamp stays the one of the first upsert for the
\* key, and its updated timestamp is replaced on every call.
C24_CreatedKept == [][CreatedKeptByCall]_vars

\* a key was first upserted into an empty store and then had its status set
C24_Witness ==
    /\ rt.store = "planned"
    /\ Len(rt.calls) = 2
    /\ rt.calls[1].op = "upsert"
    /\ rt.calls[2].op = "set_status"
    /\ rt.calls[2].sku_id = rt.calls[1].sku_id
    /\ Len(planned) = 1
    /\ planned[1].created_at = 3
    /\ planned[1].updated_at > 4

\* one set-status call: with a record for the key only the approval status
\* and the updated timestamp of that record change; without one nothing
\* changes and not-found is returned
SetStatusFrame ==
    (/\ rt.store = "planned"
     /\ rt'.calls # rt.calls
     /\ rt'.calls[Len(rt'.calls)].op = "set_status") =>
        LET before == load_consensus_demands(planned)
            after == load_consensus_demands(planned')
            call == rt'.calls[Len(rt'.calls)]
        IN /\ call.found <=> RowsOf(before, call.sku_id) # {}
           /\ Len(after) = Len(before)
           /\ \A j \in DOMAIN after :
                 IF after[j].sku_id = call.sku_id
                 THEN /\ after[j].approval_status = call.record
                      /\ after[j].updated_at # before[j].updated_at
                      /\ \A f \in DOMAIN after[j] \ {"approval_status", "updated_at"} :
                            after[j][f] = before[j][f]
                 ELSE after[j] = before[j]
           /\ (~call.found => planned' = planned /\ now' = now)

\* C25: set_approval_status on a key with a planned record changes only that
\* record's approval status and updated timestamp; on a key without one it
\* changes nothing, creates no record and returns not-found.
C25_SetStatusFrame == [][SetStatusFrame]_vars

\* the status of one key was set in a store holding two keys
C25_Witness ==
    /\ rt.store = "planned"
    /\ Len(rt.calls) >= 1
    /\ LastCall.op = "set_status"
    /\ LastCall.found
    /\ Len(planned) = 2
    /\ \E i \in DOMAIN planned :
          planned[i].sku_id = LastCall.sku_id /\ planned[i].approval_status = LastCall.record

\* C26: a load of either store returns at most one record per context key,
\* and for each key of the file the record kept has the greatest timestamp
\* among the file's records of that key.
C26_LoadKeepsLatest ==
    rt.loaded # NoLoad =>
        /\ \A i, j \in DOMAIN rt.loaded :
              rt.loaded[i].sku_id = rt.loaded[j].sku_id => i = j
        /\ {rt.loaded[j].sku_id : j \in DOMAIN rt.loaded}
              = {FileUnderTest[i].sku_id : i \in DOMAIN FileUnderTest}
        /\ \A j \in DOMAIN rt.loaded :
              \A i \in RowsOf(FileUnderTest, rt.loaded[j].sku_id) :
                 FileUnderTest[i][StampField] <= rt.loaded[j][StampField]

\* a file whose first row of a key is later than its second row was loaded
C26_Witness ==
    /\ rt.loaded # NoLoad
    /\ Len(FileUnderTest) = 2
    /\ FileUnderTest[1].sku_id = FileUnderTest[2].sku_id
    /\ FileUnderTest[1][StampField] > FileUnderTest[2][StampField]
    /\ Len(rt.loaded) = 1
    /\ rt.loaded[1][StampField] = FileUnderTest[1][StampField]

\* the boost fields a load is to return for a stored row
BoostFieldsAsLoaded(row) ==
    IF /\ row.total_boost_fraction = NoneNum
       /\ row.total_boost_percent >= -100
       /\ row.total_boost_percent <= 100
    THEN << row.total_boost_percent, 100 * row.total_boost_percent >>
    ELSE << row.total_boost_fraction, row.total_boost_percent >>

\* C27: a loaded record whose stored row has no fraction field and a percent
\* within [-1.0, 1.0] has fraction = that value and percent = 100 times it;
\* any other record has both fields as stored; loading what a load returned
\* changes nothing.
C27_LegacyNormalized ==
    rt.loaded # NoLoad =>
        /\ \A j \in DOMAIN rt.loaded :
              \E i \in RowsOf(FileUnderTest, rt.loaded[j].sku_id) :
                 /\ FileUnderTest[i][StampField] = rt.loaded[j][StampField]
                 /\ << rt.loaded[j].total_boost_fraction, rt.loaded[j].total_boost_percent >>
                       = BoostFieldsAsLoaded(FileUnderTest[i])
        /\ (rt.store = "planned" => load_consensus_demands(rt.loaded) = rt.loaded)
        /\ (rt.store = "approved" => load_approved_consensus_demands(rt.loaded) = rt.loaded)

\* a legacy row holding 0.01 was loaded: its percent becomes 1.0, which is
\* within [-1.0, 1.0] again
C27_Witness ==
    /\ rt.loaded # NoLoad
    /\ Len(FileUnderTest) = 1
    /\ FileUnderTest[1].total_boost_fraction = NoneNum
    /\ FileUnderTest[1].total_boost_percent = 1
    /\ rt.loaded[1].total_boost_fraction = 1
    /\ rt.loaded[1].total_boost_percent = 100

\* both runs of the two-run specification have written
BothDone == \A i \in ConcRuns : rt.run[i].phase = "done"

ConcFile == IF rt.store = "planned" THEN planned ELSE approved

\* C28: when two runs upsert records of different context keys with their
\* load and write steps interleaved in any order, both records are in the
\* store afterwards.
C28_BothRecordsKept ==
    (BothDone /\ rt.run[1].record.sku_id # rt.run[2].record.sku_id) =>
        \A i \in ConcRuns : RowsOf(ConcFile, rt.run[i].record.sku_id) # {}

\* the run ended in the except branch of _maybe_execute_pending_run
SinkFailed == pc = "error" /\ rt.run.status = "error"

\* the results store_result_node had archived when the write failed
ArchivedBefore == st.results

\* C29: when the write for item k fails, no item after k is evaluated, the
\* failure is reported together with the context key that failed, and the
\* results archived for the items before k are available to the caller.
C29_FailureReported ==
    SinkFailed =>
        /\ ~ENABLED NextSink
        /\ \E f \in DOMAIN rt.run.last_error : rt.run.last_error[f] = ToString(rt.fail_key)
        /\ rt.run.last_output.present
        /\ rt.run.last_output.results = ArchivedBefore

\* the narrator did not produce the text of the result
NarratorFailed == rt.narrator \in {"absent", "raises"}

C31_SnapshotOwnEvaluation ==
    \A i \in DOMAIN st.results :
        /\ (st.results[i].critic_result.decision # "route_to_human_approval" =>
               st.results[i].approval_status = "not_required")
        /\ (st.results[i].approval_status \in {"pending", "rejected"} =>
               ~st.results[i].finalized)

\* one step that writes to the approved store is taken for an item that
\* route_node sent to human_approval and to which an approve decision was
\* applied there
ApprovedWriteGated ==
    approved' # approved =>
        /\ pc = "finalize"
        /\ st.route = "human_approval"
        /\ st.critic_result.decision = "route_to_human_approval"
        /\ IsApprove(st.human_decision)

\* C32: an approved record is written only for an item whose review decision
\* was route_to_human_approval and to which an approve decision was applied
\* at HUMAN_APPROVAL in the same pass; an item routed from ROUTE to FINALIZE
\* never causes an approved write.
C32_ApprovedWriteOnlyAfterApproval == [][ApprovedWriteGated]_vars

\* the snapshots the current invocation appended for items routed to
\* HUMAN_APPROVAL that were archived approved or rejected
DecidedInPass ==
    {i \in DOMAIN st.results :
        /\ i > g.base
        /\ st.results[i].critic_result.decision = "route_to_human_approval"
        /\ st.results[i].approval_status \in Settled}

\* C33: an externally supplied decision is applied to one item: in a run
\* started or re-entered with human_decision set, at most one item routed to
\* HUMAN_APPROVAL is archived approved / rejected and every other one is
\* archived pending.
C33_DecisionAppliedOnce == Cardinality(DecidedInPass) <= 1

\* C34: a run whose queue is empty ends without invoking the Actor, appends
\* no snapshot and upserts no planned record; in general a run appends as
\* many snapshots as its queue is long.
C34_SnapshotsMatchQueue ==
    pc = "END" =>
        /\ Len(st.results) - g.base = Len(st.sku_queue)
        /\ (st.sku_queue = << >> =>
               /\ g.nActor = 0
               /\ g.nStore = 0
               /\ RowsOf(planned, NoSku) = {})

\* C35: across an initial run and its resumes the results hold at most one
\* snapshot per queue item: the resumed item's snapshot replaces its earlier
\* pending snapshot and items archived as terminal are not evaluated again.
C35_OneSnapshotPerItem ==
    pc = "END" =>
        /\ Len(st.results) <= Len(st.sku_queue)
        /\ \A i, j \in DOMAIN st.results :
              st.results[i].sku_id = st.results[j].sku_id => i = j

\* The statement of C36 as written: no item is archived with finalized = TRUE
\* and approval_status not_required while its latest Review Result has
\* outside_thresholds = TRUE.
C36_OutsideNeverAutoFinalized ==
    \A i \in DOMAIN st.results :
        ~(/\ st.results[i].finalized
          /\ st.results[i].approval_status = "not_required"
          /\ st.results[i].critic_result.outside_thresholds)


\* C36: an item archived with finalized = TRUE and approval_status
\* not_required while its Review Result has outside_thresholds = TRUE is one
\* whose decision is ask_actor_rerun, with a signal category that is not ok
\* named for rerun; an item whose decision is route_to_human_approval is never
\* archived as not_required.
C36_OutsideAutoFinalizedOnlyOnRerun ==
    \A i \in DOMAIN st.results :
        /\ (/\ st.results[i].finalized
            /\ st.results[i].approval_status = "not_required"
            /\ st.results[i].critic_result.outside_thresholds)
           => /\ st.results[i].critic_result.decision = "ask_actor_rerun"
              /\ Len(st.results[i].critic_result.rerun_recommendations) > 0
        /\ st.results[i].critic_result.decision = "route_to_human_approval"
           => st.results[i].approval_status # "not_required"

C36_Witness ==
    \E i, j \in DOMAIN st.results :
        /\ st.results[i].finalized
        /\ st.results[i].approval_status = "not_required"
        /\ st.results[i].critic_result.outside_thresholds
        /\ st.results[i].critic_result.decision = "ask_actor_rerun"
        /\ st.results[j].critic_result.decision = "route_to_human_approval"
        /\ st.results[j].approval_status = "approved"
        /\ st.results[j].finalized


\* C37: once every invocation and click has completed, each record of the
\* approved store has a planned record for the same key whose approval_status
\* is approved and whose baseline, boost and final forecast are those of the
\* approved record.
C37_StoresAgree ==
    pc = "END" =>
        \A a \in DOMAIN approved :
            \E p \in RowsOf(planned, approved[a].sku_id) :
                /\ planned[p].approval_status = "approved"
                /\ planned[p].baseline_forecast = approved[a].baseline_forecast
                /\ planned[p].total_boost_percent = approved[a].total_boost_percent
                /\ planned[p].final_demand_forecast = approved[a].final_demand_forecast


\* ---------------------- the key of a request and the key of its records
\* A request names its context by customer_id and location_id as the caller
\* typed them.  The calculators look the signal values up under the
\* normalized identifiers; store_result_node hands the identifiers of the
\* state to the planned store, whose key is the string of each field.  The
\* as_of_date is the same in every request here and is left out of the rows.
MaxKeyRuns == 2

\* (value or "").strip().upper(), on the identifiers a caller may type
_norm_upper(value) ==
    CASE value \in {"BLINKIT", "blinkit", " BLINKIT "} -> "BLINKIT"
      [] value \in {"BANGALORE", "bangalore", " Bangalore "} -> "BANGALORE"
      [] OTHER -> value

\* the mock values exist for customer BLINKIT at BANGALORE, and are looked
\* up under customer_id.upper() and location_id.upper()
get_demand_driver_values(sku, customer_id, location_id) ==
    LET str_upper(value) ==
            CASE value = "blinkit" -> "BLINKIT"
              [] value = "bangalore" -> "BANGALORE"
              [] value = " Bangalore " -> " BANGALORE "
              [] OTHER -> value
    IN IF str_upper(customer_id) = "BLINKIT" /\ str_upper(location_id) = "BANGALORE"
       THEN _get_values(sku) ELSE EmptyProfile

\* consensus_demand._key
_key(row) == << row.sku_id, row.customer_id, row.location_id >>

\* load_consensus_demands on rows that carry their context: the latest row
\* of each key, sorted by location_id, customer_id and sku_id.  IdRank is the
\* place of an identifier in Python's order of strings: a blank sorts before
\* the capitals, the capitals before the small letters.
load_consensus_demands_in_context(file) ==
    LET IdRank(value) ==
            CASE value \in {" BLINKIT ", " Bangalore "} -> 1
              [] value \in {"BLINKIT", "BANGALORE"} -> 2
              [] value = "DUNZO" -> 3
              [] OTHER -> 4
        KeyRank(row) ==
            100 * IdRank(row.location_id) + 10 * IdRank(row.customer_id) + row.sku_id
        kept == {i \in DOMAIN file :
                    \A j \in DOMAIN file :
                        _key(file[j]) = _key(file[i]) =>
                            \/ file[j].updated_at < file[i].updated_at
                            \/ file[j].updated_at = file[i].updated_at /\ j <= i}
        ranks == SortedKeys({KeyRank(file[i]) : i \in kept})
    IN [n \in DOMAIN ranks |->
           normalize_row(file[CHOOSE i \in kept : KeyRank(file[i]) = ranks[n]])]

\* upsert_consensus_demand on rows that carry their context
upsert_consensus_demand_in_context(file, record, t) ==
    LET write(rows) ==
            LET I == {i \in DOMAIN rows : _key(rows[i]) = _key(record)}
                created == IF I = {} THEN t ELSE rows[Min(I)].created_at
                row == [sku_id |-> record.sku_id,
                        customer_id |-> record.customer_id,
                        location_id |-> record.location_id,
                        baseline_forecast |-> record.baseline_forecast,
                        total_boost_fraction |-> record.total_boost_fraction,
                        total_boost_percent |-> record.total_boost_percent,
                        final_demand_forecast |-> record.final_demand_forecast,
                        created_at |-> created,
                        updated_at |-> t + 1]
            IN [file |-> IF I = {} THEN Append(rows, row)
                         ELSE [rows EXCEPT ![Min(I)] = row],
                now |-> t + 2]
    IN CHOOSE out \in
           { write(rows) : rows \in {load_consensus_demands_in_context(file)} } : TRUE

InitKey ==
    /\ signals = [k \in SkuIds |-> BaseProfile]
    /\ pc = "idle"
    /\ st = InputState("single", AUTO, "A", 1, None)
    /\ planned = << >>
    /\ approved = << >>
    /\ now = 0
    /\ g = NoRun
    /\ ui_decision = NoCall
    /\ rt = [input |-> [sku_id |-> NoSku, customer_id |-> None, location_id |-> None],
             forecast |-> NoForecast, runs |-> << >>]

\* graph.ainvoke with a single SKU and the customer_id and location_id as
\* the caller typed them
KeyStart ==
    /\ pc = "idle"
    /\ Len(rt.runs) < MaxKeyRuns
    /\ \E sku \in SkuIds,
          customer_id \in {"BLINKIT", "blinkit", " BLINKIT ", "DUNZO"},
          location_id \in {"BANGALORE", "bangalore", " Bangalore "} :
          rt' = [rt EXCEPT !.input = [sku_id |-> sku, customer_id |-> customer_id,
                                      location_id |-> location_id],
                           !.forecast = NoForecast]
    /\ pc' = "actor"
    /\ UNCHANGED << signals, st, planned, approved, now, g, ui_decision >>

\* actor_node: the forecast of the request's context.  tools._get_values
\* looks the values up under the normalized identifiers; the calculators of
\* a context without values are those of a SKU without values.
KeyActor ==
    /\ pc = "actor"
    /\ LET values == get_demand_driver_values(rt.input.sku_id,
                                              _norm_upper(rt.input.customer_id),
                                              _norm_upper(rt.input.location_id))
           sku == IF values = EmptyProfile THEN UnknownSku ELSE rt.input.sku_id
       IN rt' = [rt EXCEPT !.forecast = calculate_final_demand_forecast(sku)]
    /\ pc' = "store_result"
    /\ UNCHANGED << signals, st, planned, approved, now, g, ui_decision >>

\* store_result_node: the upsert of the planned record under the identifiers
\* of the state, which ends the run
KeyStoreResult ==
    /\ pc = "store_result"
    /\ \E up \in {upsert_consensus_demand_in_context(
                      planned,
                      [sku_id |-> rt.input.sku_id,
                       customer_id |-> rt.input.customer_id,
                       location_id |-> rt.input.location_id,
                       baseline_forecast |-> rt.forecast.baseline_forecast,
                       total_boost_fraction |-> boost_frac_of(rt.forecast),
                       total_boost_percent |-> boost_frac_of(rt.forecast) * 100,
                       final_demand_forecast |-> rt.forecast.final_demand_forecast],
                      now)} :
          /\ planned' = up.file
          /\ now' = up.now
    /\ rt' = [rt EXCEPT !.runs = Append(@, [input |-> rt.input, forecast |-> rt.forecast])]
    /\ pc' = "idle"
    /\ UNCHANGED << signals, st, approved, g, ui_decision >>

NextKey ==
    \/ KeyStart
    \/ KeyActor
    \/ KeyStoreResult

SpecKey == InitKey /\ [][NextKey]_vars

NormKey(r) == << r.sku_id, _norm_upper(r.customer_id), _norm_upper(r.location_id) >>

\* C38: every planned record is stored under the normalized key of its
\* request, and two runs whose identifiers differ only in letter case or
\* surrounding blanks compute the same forecast and leave one planned record
\* for their key.
C38_PersistedUnderNormalizedKey ==
    /\ \A p \in DOMAIN planned : _key(planned[p]) = NormKey(planned[p])
    /\ \A i, j \in DOMAIN rt.runs :
          NormKey(rt.runs[i].input) = NormKey(rt.runs[j].input) =>
              /\ rt.runs[i].forecast = rt.runs[j].forecast
              /\ Cardinality({p \in DOMAIN planned :
                                 NormKey(planned[p]) = NormKey(rt.runs[i].input)}) = 1


\* C39: when a run request of the UI has been served, the workflow has run
\* once: each item of the queue has had one planned upsert (its record is as
\* first written, and the store's clock has advanced by the two time stamps of
\* one upsert per item).
C39_OneExecutionPerRequest ==
    pc = "done" =>
        /\ now = 2 * Len(st.sku_queue)
        /\ \A p \in DOMAIN planned : planned[p].updated_at = planned[p].created_at + 1

====
